---- MODULE Spec2Model ----
(***************************************************************************)
(* A model of the three core subsystems of the bundler:                    *)
(*   - the chain tracker        (crates/pool/src/chain.rs),                *)
(*   - the transaction tracker  (src/builder/transaction_tracker.rs),      *)
(*   - the bundle proposer      (src/builder/bundle_proposer.rs).          *)
(* Each subsystem has its own variables, actions and specification; a      *)
(* specification leaves the other subsystems' variables untouched.         *)
(***************************************************************************)
EXTENDS Integers, Sequences, FiniteSets, TLC

(***************************************************************************)
(* Generic helpers on sequences.                                           *)
(***************************************************************************)
Range(s) == { s[i] : i \in 1..Len(s) }

\* VecDeque/Vec::iter().skip(n)
Skip(s, n) == IF n >= Len(s) THEN << >> ELSE SubSeq(s, n + 1, Len(s))

\* n calls of pop_back (pop_back on an empty deque does nothing)
PopBack(s, n) == IF n >= Len(s) THEN << >> ELSE SubSeq(s, 1, Len(s) - n)

(***************************************************************************)
(* CHAIN TRACKER: the upstream node.                                       *)
(* The node knows a tree of blocks: branch 0 is a chain from genesis, and  *)
(* branch b >= 1 forks off branch 0 above block b - 1.  A block hash       *)
(* encodes (number, branch); 0 is H256::zero(), the parent of genesis.     *)
(***************************************************************************)
MaxNumber == 5
NumBranches == 3
MaxSyncs == 3
HISTORY_SIZE == 3

Branches == 0..(NumBranches - 1)
ZeroHash == 0
HashOf(n, b) == n * NumBranches + b + 1
NumberOf(h) == (h - 1) \div NumBranches
BranchOf(h) == (h - 1) % NumBranches
BlockExists(n, b) == n \in 0..MaxNumber /\ b \in Branches /\ (b = 0 \/ n >= b)
BlockHashes == { HashOf(n, b) : n \in 0..MaxNumber, b \in Branches } \cap
               { h \in 1..((MaxNumber + 1) * NumBranches) : BlockExists(NumberOf(h), BranchOf(h)) }
ParentHashOf(h) ==
    LET n == NumberOf(h)
        b == BranchOf(h)
    IN  IF n = 0 THEN ZeroHash
        ELSE IF b > 0 /\ n = b THEN HashOf(n - 1, 0)
        ELSE HashOf(n - 1, b)

\* The UserOperationEvent logs of a block, as op hashes.  Branch 0 carries
\* the ops of the tests; a block of branch 1 mines again the first op of the
\* branch-0 block of its number, followed by an op of its own.
MainOps(n) ==
    CASE n = 0 -> << 101, 102 >>
      [] n = 1 -> << 103 >>
      [] n = 2 -> << >>
      [] n = 3 -> << 104, 105 >>
      [] OTHER -> << 102 + n >>
OpHashesOf(h) ==
    LET n == NumberOf(h)
        b == BranchOf(h)
    IN  CASE b = 0 -> MainOps(n)
          [] b = 1 -> (IF MainOps(n) = << >> THEN << >> ELSE << Head(MainOps(n)) >>)
                      \o << 120 + n >>
          [] OTHER -> << 100 + 5 * b + n >>
\* The Deposited logs of a block, as deposit addresses.
DepositAddressesOf(h) ==
    LET n == NumberOf(h)
        b == BranchOf(h)
    IN  IF b >= 1 /\ n = b THEN << b >>
        ELSE IF b = 0 /\ n % 2 = 0 /\ n > 0 THEN << 10 + n >>
        ELSE << >>

AllOpHashes == UNION { Range(OpHashesOf(h)) : h \in BlockHashes }

(***************************************************************************)
(* CHAIN TRACKER: the provider calls.                                      *)
(***************************************************************************)
\* Provider::get_block(hash): the block header the node holds for a hash.
get_block(h) ==
    [number |-> NumberOf(h), hash |-> h, parent_hash |-> ParentHashOf(h)]

\* load_mined_ops over the logs of a block: one MinedOp per UserOperationEvent
MinedOp(h, block_hash) ==
    [hash |-> h, actual_gas_cost |-> BranchOf(block_hash) + 1]
load_mined_ops(block_hash) ==
    [i \in 1..Len(OpHashesOf(block_hash)) |-> MinedOp(OpHashesOf(block_hash)[i], block_hash)]

\* load_entity_deposits over the logs of a block: one DepositInfo per Deposited
load_entity_deposits(block_hash) ==
    [i \in 1..Len(DepositAddressesOf(block_hash)) |->
        [address |-> DepositAddressesOf(block_hash)[i], amount |-> NumberOf(block_hash)]]

\* BlockSummary::try_from_block_without_ops; "err" when the number is not the
\* expected one (expected = -1 stands for None)
try_from_block_without_ops(block, expected_block_number) ==
    IF expected_block_number # -1 /\ block.number # expected_block_number
    THEN [ok |-> FALSE, summary |-> << >>]
    ELSE [ok |-> TRUE,
          summary |-> [number |-> block.number, hash |-> block.hash,
                       parent_hash |-> block.parent_hash,
                       ops |-> << >>, entity_deposits |-> << >>]]

\* load_ops_in_block_with_hash + load_ops_into_block_summaries
load_ops_into_block_summaries(blks) ==
    [i \in 1..Len(blks) |->
        [blks[i] EXCEPT !.ops = load_mined_ops(blks[i].hash),
                        !.entity_deposits = load_entity_deposits(blks[i].hash)]]

RECURSIVE load_blocks_back_one_short(_, _)
\* a walk that stops one block above min_block_number
load_blocks_back_one_short(blks, min_block_number) ==
    IF blks[1].number > min_block_number + 1
    THEN load_blocks_back_one_short(
             << try_from_block_without_ops(get_block(blks[1].parent_hash),
                                           blks[1].number - 1).summary >> \o blks,
             min_block_number)
    ELSE blks

RECURSIVE load_blocks_back_to_number_no_ops(_, _)
\* called with << head >>: push_front the parent while blocks[0].number > min
load_blocks_back_to_number_no_ops(blks, min_block_number) ==
    IF blks[1].number > min_block_number
    THEN load_blocks_back_to_number_no_ops(
             << try_from_block_without_ops(get_block(blks[1].parent_hash),
                                           blks[1].number - 1).summary >> \o blks,
             min_block_number)
    ELSE blks

\* a lookup that indexes the window by block number, as if it began at block 0
block_with_number_from_genesis(window, number) ==
    IF number + 1 > Len(window) THEN << >> ELSE << window[number + 1] >>

\* Chain::block_with_number; << >> stands for None
block_with_number(window, number) ==
    IF window = << >> THEN << >>
    ELSE LET earliest_number == window[1].number
         IN  IF number < earliest_number THEN << >>
             ELSE IF number - earliest_number + 1 > Len(window) THEN << >>
             ELSE << window[number - earliest_number + 1] >>

\* a walk that never goes back beyond the blocks above the current head
connect_without_hash_check(window, added_blocks) == added_blocks

RECURSIVE connect_to_existing_chain(_, _)
\* the loop of load_added_blocks_connecting_to_existing_chain
connect_to_existing_chain(window, added_blocks) ==
    LET earliest_new_block == added_blocks[1]
        presumed_parent == block_with_number(window, earliest_new_block.number - 1)
    IN  IF earliest_new_block.number = 0 THEN added_blocks
        ELSE IF presumed_parent = << >> THEN added_blocks
        ELSE IF presumed_parent[1].hash = earliest_new_block.parent_hash THEN added_blocks
        ELSE connect_to_existing_chain(
                 window,
                 << try_from_block_without_ops(get_block(earliest_new_block.parent_hash),
                                               earliest_new_block.number - 1).summary >>
                 \o added_blocks)

\* only the blocks above the current number, without the walk that connects
load_added_blocks_above_current(window, current_block_number, new_head) ==
    load_ops_into_block_summaries(
        load_blocks_back_to_number_no_ops(<< new_head >>, current_block_number + 1))

load_added_blocks_connecting_to_existing_chain(window, current_block_number, new_head) ==
    load_ops_into_block_summaries(
        connect_to_existing_chain(
            window,
            load_blocks_back_to_number_no_ops(<< new_head >>, current_block_number + 1)))

\* while self.blocks.len() > history_size { pop_front }
evict_front(window) ==
    IF Len(window) > HISTORY_SIZE
    THEN SubSeq(window, Len(window) - HISTORY_SIZE + 1, Len(window))
    ELSE window

RECURSIVE all_ops_newest_first(_)
\* the same collection taken from the newest block to the oldest
all_ops_newest_first(blks) ==
    IF blks = << >> THEN << >>
    ELSE blks[Len(blks)].ops \o all_ops_newest_first(SubSeq(blks, 1, Len(blks) - 1))

RECURSIVE all_ops(_)
\* blocks.iter().flat_map(|block| &block.ops).copied().collect()
all_ops(blks) ==
    IF blks = << >> THEN << >> ELSE Head(blks).ops \o all_ops(Tail(blks))

RECURSIVE all_entity_deposits(_)
\* blocks.iter().flat_map(|block| &block.entity_deposits).copied().collect()
all_entity_deposits(blks) ==
    IF blks = << >> THEN << >>
    ELSE Head(blks).entity_deposits \o all_entity_deposits(Tail(blks))

NoUpdate == [latest_block_number |-> -1]

\* Chain::new_update, on the window the update leaves
new_update(window, reorg_depth, mined_ops, unmined_ops, entity_deposits, unmined_entity_deposits, reorg_larger_than_history) ==
    [latest_block_number |-> window[Len(window)].number,
     latest_block_hash |-> window[Len(window)].hash,
     earliest_remembered_block_number |-> window[1].number,
     reorg_depth |-> reorg_depth,
     mined_ops |-> mined_ops,
     unmined_ops |-> unmined_ops,
     entity_deposits |-> entity_deposits,
     unmined_entity_deposits |-> unmined_entity_deposits,
     reorg_larger_than_history |-> reorg_larger_than_history]

\* a reset that loads the head alone, without the history below it
reset_to_head_only(head) ==
    LET blks == load_ops_into_block_summaries(<< head >>)
    IN  [status |-> "ok", path |-> "reset", blocks |-> blks,
         update |-> new_update(blks, 0, all_ops(blks), << >>,
                               all_entity_deposits(blks), << >>, FALSE)]

\* Chain::reset_and_initialize
reset_and_initialize(head) ==
    LET min_block_number ==
            IF head.number >= HISTORY_SIZE - 1 THEN head.number - (HISTORY_SIZE - 1) ELSE 0
        blks == load_ops_into_block_summaries(
                    load_blocks_back_to_number_no_ops(<< head >>, min_block_number))
    IN  [status |-> "ok", path |-> "reset", blocks |-> blks,
         update |-> new_update(blks, 0, all_ops(blks), << >>,
                               all_entity_deposits(blks), << >>, FALSE)]

\* for _ in 0..reorg_depth { self.blocks.pop_back(); }
replaced_count_one_less(reorg_depth) == IF reorg_depth > 0 THEN reorg_depth - 1 ELSE 0
replaced_count(reorg_depth) == reorg_depth

\* .skip(self.blocks.len() - reorg_depth): where the replaced suffix starts
replaced_suffix_start_one_early(len, reorg_depth) ==
    IF len - reorg_depth > 0 THEN len - reorg_depth - 1 ELSE 0
replaced_suffix_start(len, reorg_depth) == len - reorg_depth

\* Chain::update_with_blocks.  self.blocks.len() - reorg_depth is a usize
\* subtraction: when reorg_depth exceeds the length it panics in a build with
\* overflow checks and wraps to a huge skip count in a build without.
update_with_blocks(window, current_block_number, added_blocks, overflow_checks) ==
    LET reorg_depth == current_block_number + 1 - added_blocks[1].number
        underflow == reorg_depth > Len(window)
        skipped == IF underflow THEN Len(window)
                   ELSE replaced_suffix_start(Len(window), reorg_depth)
        unmined_ops == all_ops(Skip(window, skipped))
        unmined_entity_deposits == all_entity_deposits(Skip(window, skipped))
        is_reorg_larger_than_history == reorg_depth >= HISTORY_SIZE
        blks == evict_front(PopBack(window, replaced_count(reorg_depth)) \o added_blocks)
    IN  IF underflow /\ overflow_checks
        THEN [status |-> "panic", path |-> "incremental", blocks |-> window,
              update |-> NoUpdate]
        ELSE [status |-> "ok", path |-> "incremental", blocks |-> blks,
              update |-> new_update(blks, reorg_depth,
                                    all_ops(added_blocks), unmined_ops,
                                    all_entity_deposits(added_blocks),
                                    unmined_entity_deposits,
                                    is_reorg_larger_than_history)]

\* an error exit that has already dropped the window
ChainErrorDroppingWindow(window) ==
    [status |-> "err", path |-> "none", blocks |-> << >>, update |-> NoUpdate]

ChainError(window) ==
    [status |-> "err", path |-> "none", blocks |-> window, update |-> NoUpdate]

\* a sync_to_block whose ensure! lets through the head exactly history_size
\* below the current one
sync_to_block_lenient_ensure(window, head_hash, rpc_ok, overflow_checks) ==
    LET new_head == try_from_block_without_ops(get_block(head_hash), -1).summary
    IN  IF window = << >>
        THEN IF rpc_ok THEN reset_and_initialize(new_head) ELSE ChainError(window)
        ELSE LET current_block_number == window[Len(window)].number
                 new_block_number == new_head.number
             IN  IF ~(current_block_number <= new_block_number + HISTORY_SIZE)
                 THEN ChainError(window)
                 ELSE IF ~rpc_ok THEN ChainError(window)
                 ELSE IF current_block_number + HISTORY_SIZE < new_block_number
                 THEN reset_and_initialize(new_head)
                 ELSE update_with_blocks(
                          window, current_block_number,
                          load_added_blocks_connecting_to_existing_chain(
                              window, current_block_number, new_head),
                          overflow_checks)

\* Chain::sync_to_block.  rpc_ok = FALSE: a get_block or get_logs call of this
\* sync fails (every path that passes the ensure! makes at least one).
sync_to_block(window, head_hash, rpc_ok, overflow_checks) ==
    LET new_head == try_from_block_without_ops(get_block(head_hash), -1).summary
    IN  IF window = << >>
        THEN IF rpc_ok THEN reset_and_initialize(new_head) ELSE ChainError(window)
        ELSE LET current_block_number == window[Len(window)].number
                 new_block_number == new_head.number
             IN  IF ~(current_block_number < new_block_number + HISTORY_SIZE)
                 THEN ChainError(window)
                 ELSE IF ~rpc_ok THEN ChainError(window)
                 ELSE IF current_block_number + HISTORY_SIZE < new_block_number
                 THEN reset_and_initialize(new_head)
                 ELSE update_with_blocks(
                          window, current_block_number,
                          load_added_blocks_connecting_to_existing_chain(
                              window, current_block_number, new_head),
                          overflow_checks)

(***************************************************************************)
(* ChainUpdate::deduped_ops                                                *)
(***************************************************************************)
OpHash(op) == op.hash
hash_set(ops) == { OpHash(ops[i]) : i \in 1..Len(ops) }
\* iter().filter(|op| !hashes.contains(&op.hash)).copied().collect()
filter_not_in(ops, hashes) == SelectSeq(ops, LAMBDA op : OpHash(op) \notin hashes)
deduped_ops_one_sided(update) ==
    [mined_ops |-> update.mined_ops,
     unmined_ops |-> filter_not_in(update.unmined_ops, hash_set(update.mined_ops))]
deduped_ops(update) ==
    LET mined_op_hashes == hash_set(update.mined_ops)
        unmined_op_hashes == hash_set(update.unmined_ops)
    IN  [mined_ops |-> filter_not_in(update.mined_ops, unmined_op_hashes),
         unmined_ops |-> filter_not_in(update.unmined_ops, mined_op_hashes)]

(***************************************************************************)
(* TRANSACTION TRACKER: settings, the sender and the pure parts.           *)
(***************************************************************************)
max_blocks_to_wait_for_mine == 2
replacement_fee_percent_increase == 100

MaxTxs == 2
MaxExternalNonce == 2
MaxBlockNumber == 2
MaxFee == 2

\* Option<T>: None is the empty sequence and Some(x) the sequence of x
None == << >>
Some(x) == << x >>
Fees == 1..MaxFee
GasFeesSet == [max_fee_per_gas : Fees, max_priority_fee_per_gas : Fees]

\* math::increase_by_percent
increase_by_percent(n, percent) == (n * (100 + percent)) \div 100
\* GasFees::increase_by_percent
gas_fees_increase_by_percent(gas_fees, percent) ==
    [max_fee_per_gas |-> increase_by_percent(gas_fees.max_fee_per_gas, percent),
     max_priority_fee_per_gas |->
         increase_by_percent(gas_fees.max_priority_fee_per_gas, percent)]

\* RawTransactionSender::get_transaction_status on what the node answers for a
\* hash: "unknown" (no such transaction), "pending" (no block yet) or "mined".
raw_get_transaction_status(node_tx) ==
    CASE node_tx.state = "unknown" -> [status |-> "Pending", block_number |-> 0]
      [] node_tx.state = "pending" -> [status |-> "Pending", block_number |-> 0]
      [] OTHER -> [status |-> "Mined", block_number |-> node_tx.block_number]
\* A TransactionSender that reports a transaction the node no longer knows as
\* Dropped.
dropping_get_transaction_status(node_tx) ==
    CASE node_tx.state = "unknown" -> [status |-> "Dropped", block_number |-> 0]
      [] node_tx.state = "pending" -> [status |-> "Pending", block_number |-> 0]
      [] OTHER -> [status |-> "Mined", block_number |-> node_tx.block_number]
get_transaction_status(sender_kind, node_tx) ==
    IF sender_kind = "raw" THEN raw_get_transaction_status(node_tx)
    ELSE dropping_get_transaction_status(node_tx)

\* TransactionTrackerImplInner::new, given the account's nonce
new_inner(initial_nonce) ==
    [nonce |-> initial_nonce, transactions |-> << >>,
     has_dropped |-> FALSE, attempt_count |-> 0]

\* a fee floor taken from the first attempt instead of the latest
get_nonce_and_first_attempt_fees(self) ==
    LET gas_fees ==
            IF self.has_dropped THEN None
            ELSE IF self.transactions = << >> THEN None
            ELSE Some(gas_fees_increase_by_percent(
                          self.transactions[1].gas_fees,
                          replacement_fee_percent_increase))
    IN  << self.nonce, gas_fees >>

\* TransactionTrackerImplInner::get_nonce_and_required_fees
get_nonce_and_required_fees(self) ==
    LET gas_fees ==
            IF self.has_dropped THEN None
            ELSE IF self.transactions = << >> THEN None
            ELSE Some(gas_fees_increase_by_percent(
                          self.transactions[Len(self.transactions)].gas_fees,
                          replacement_fee_percent_increase))
    IN  << self.nonce, gas_fees >>

\* TransactionTrackerImplInner::validate_transaction: TRUE for Ok(()).  A
\* transaction is [nonce, gas_fees], nonce = None when it is not set.
validate_transaction_nonce_only(self, tx) ==
    tx.nonce # None /\ tx.nonce[1] = get_nonce_and_required_fees(self)[1]
validate_transaction(self, tx) ==
    LET required_nonce == get_nonce_and_required_fees(self)[1]
        required_gas_fees == get_nonce_and_required_fees(self)[2]
    IN  IF tx.nonce = None THEN FALSE
        ELSE IF tx.nonce[1] # required_nonce THEN FALSE
        ELSE IF required_gas_fees # None
                /\ (\/ tx.gas_fees.max_fee_per_gas < required_gas_fees[1].max_fee_per_gas
                    \/ tx.gas_fees.max_priority_fee_per_gas
                           < required_gas_fees[1].max_priority_fee_per_gas)
        THEN FALSE
        ELSE TRUE

\* TransactionTrackerImplInner::set_nonce_and_clear_state
set_nonce_keeping_attempt_count(self, nonce) ==
    [nonce |-> nonce, transactions |-> << >>, has_dropped |-> FALSE,
     attempt_count |-> self.attempt_count]
set_nonce_keeping_transactions(self, nonce) == [self EXCEPT !.nonce = nonce]
set_nonce_and_clear_state(self, nonce) ==
    [nonce |-> nonce, transactions |-> << >>, has_dropped |-> FALSE, attempt_count |-> 0]

MinedUpdate(tx, block_number) ==
    [kind |-> "Mined", tx_hash |-> tx.tx_hash, gas_fees |-> tx.gas_fees,
     block_number |-> block_number, attempt_number |-> tx.attempt_number]
Update(kind) == [kind |-> kind]

\* a scan that asks for the status of the newest transaction only
scan_latest_only(txs, i, status_of) ==
    IF i = 0 THEN Update("NonceUsedForOtherTx")
    ELSE IF status_of[txs[i].tx_hash].status = "Mined"
    THEN MinedUpdate(txs[i], status_of[txs[i].tx_hash].block_number)
    ELSE Update("NonceUsedForOtherTx")

RECURSIVE scan_newest_first(_, _, _)
\* for tx in self.transactions.iter().rev(): the update for the first Mined one
scan_newest_first(txs, i, status_of) ==
    IF i = 0 THEN Update("NonceUsedForOtherTx")
    ELSE IF status_of[txs[i].tx_hash].status = "Mined"
    THEN MinedUpdate(txs[i], status_of[txs[i].tx_hash].block_number)
    ELSE scan_newest_first(txs, i - 1, status_of)

\* a check that takes the new nonce and clears the list before it scans
check_for_update_now_clearing_first(self, external_nonce, status_of, fail) ==
    IF fail = "nonce" THEN [inner |-> self, out |-> Update("ProviderError")]
    ELSE IF self.nonce < external_nonce
    THEN IF fail = "status" /\ self.transactions # << >>
         THEN [inner |-> set_nonce_and_clear_state(self, external_nonce),
               out |-> Update("ProviderError")]
         ELSE [inner |-> set_nonce_and_clear_state(self, external_nonce),
               out |-> scan_newest_first(self.transactions, Len(self.transactions),
                                         status_of)]
    ELSE IF self.has_dropped THEN [inner |-> self, out |-> Update("None")]
    ELSE IF self.transactions = << >> THEN [inner |-> self, out |-> Update("None")]
    ELSE IF fail = "status" THEN [inner |-> self, out |-> Update("ProviderError")]
    ELSE LET last_tx == self.transactions[Len(self.transactions)]
             status == status_of[last_tx.tx_hash]
         IN  CASE status.status = "Pending" -> [inner |-> self, out |-> Update("None")]
               [] status.status = "Mined" ->
                    [inner |-> set_nonce_and_clear_state(self, self.nonce + 1),
                     out |-> MinedUpdate(last_tx, status.block_number)]
               [] OTHER ->
                    [inner |-> [self EXCEPT !.has_dropped = TRUE],
                     out |-> Update("LatestTxDropped")]

\* TransactionTrackerImplInner::check_for_update_now.  fail names the request
\* that fails in this call, if any: "nonce" (get_transaction_count) or
\* "status" (get_transaction_status); out.kind = "None" stands for Ok(None).
check_for_update_now(self, external_nonce, status_of, fail) ==
    IF fail = "nonce" THEN [inner |-> self, out |-> Update("ProviderError")]
    ELSE IF self.nonce < external_nonce
    THEN IF fail = "status" /\ self.transactions # << >>
         THEN [inner |-> self, out |-> Update("ProviderError")]
         ELSE [inner |-> set_nonce_and_clear_state(self, external_nonce),
               out |-> scan_newest_first(self.transactions, Len(self.transactions),
                                         status_of)]
    ELSE IF self.has_dropped THEN [inner |-> self, out |-> Update("None")]
    ELSE IF self.transactions = << >> THEN [inner |-> self, out |-> Update("None")]
    ELSE IF fail = "status" THEN [inner |-> self, out |-> Update("ProviderError")]
    ELSE LET last_tx == self.transactions[Len(self.transactions)]
             status == status_of[last_tx.tx_hash]
         IN  CASE status.status = "Pending" -> [inner |-> self, out |-> Update("None")]
               [] status.status = "Mined" ->
                    [inner |-> set_nonce_and_clear_state(self, self.nonce + 1),
                     out |-> MinedUpdate(last_tx, status.block_number)]
               [] OTHER ->
                    [inner |-> [self EXCEPT !.has_dropped = TRUE],
                     out |-> Update("LatestTxDropped")]

\* a recovery that counts the failed send as an attempt
handle_send_error_counting_attempt(self, external_nonce, status_of, fail) ==
    LET r == check_for_update_now(self, external_nonce, status_of, fail)
        counted == [r.inner EXCEPT !.attempt_count = @ + 1]
    IN  IF r.out.kind = "ProviderError" THEN r
        ELSE IF r.out.kind \in {"Mined", "NonceUsedForOtherTx"} THEN r
        ELSE [inner |-> counted, out |-> Update("SendError")]

\* TransactionTrackerImplInner::handle_send_error
handle_send_error(self, external_nonce, status_of, fail) ==
    LET r == check_for_update_now(self, external_nonce, status_of, fail)
    IN  IF r.out.kind = "ProviderError" THEN r
        ELSE IF r.out.kind \in {"Mined", "NonceUsedForOtherTx"} THEN r
        ELSE [inner |-> r.inner, out |-> Update("SendError")]

\* a recording of the sent transaction that leaves has_dropped as it is
record_sent_transaction_keeping_dropped(self, tx_hash, gas_fees) ==
    [self EXCEPT !.transactions = Append(@, [tx_hash |-> tx_hash, gas_fees |-> gas_fees,
                                             attempt_number |-> self.attempt_count]),
                 !.attempt_count = @ + 1]

\* send_transaction_and_wait after a successful send: the PendingTransaction
\* is recorded
record_sent_transaction(self, tx_hash, gas_fees) ==
    [self EXCEPT !.transactions = Append(@, [tx_hash |-> tx_hash, gas_fees |-> gas_fees,
                                             attempt_number |-> self.attempt_count]),
                 !.has_dropped = FALSE,
                 !.attempt_count = @ + 1]


(***************************************************************************)
(* BUNDLE PROPOSER: src/builder/bundle_proposer.rs.                        *)
(*                                                                         *)
(* A user operation is [id, sender, paymaster, factory,                    *)
(* max_priority_fee_per_gas, max_gas_cost]; paymaster and factory are      *)
(* Option<Address>.  A pool entry pairs it with the result its simulation   *)
(* will give (MockOp of the tests).                                        *)
(***************************************************************************)
MaxOps == 2
MaxGasCost == 2
MaxDeposit == 2
MaxPriorityFee == 3
MaxEstimates == 2
max_priority_fee_overhead_percent == 50

Senders == {1, 2}
Paymasters == {3}
Factories == {4}
Aggregators == {5}

Entity(kind, address) == [kind |-> kind, address |-> address]

\* a filter that compares the fee with the quote itself, without overhead
fee_eligible_without_overhead(op, max_priority_fee_per_gas) ==
    op.max_priority_fee_per_gas >= max_priority_fee_per_gas

\* make_bundle's filter: op.max_priority_fee_per_gas >= quote * (100 + pct) / 100
fee_eligible(op, max_priority_fee_per_gas) ==
    op.max_priority_fee_per_gas >=
        (max_priority_fee_per_gas * (100 + max_priority_fee_overhead_percent)) \div 100

\* a revalidation that treats a simulator error like a violation
simulate_validation_rejecting_errors(mock_op) ==
    LET result == mock_op.simulation_result
    IN  IF result.kind = "Success"
        THEN [ok |-> TRUE, op |-> mock_op.op,
              simulation |-> IF ~result.signature_failed /\ result.in_valid_time_range
                             THEN Some(result) ELSE None]
        ELSE [ok |-> TRUE, op |-> mock_op.op, simulation |-> None]

\* BundleProposerImpl::simulate_validation on the simulator's result
simulate_validation(mock_op) ==
    LET result == mock_op.simulation_result
    IN  CASE result.kind = "Success" ->
               [ok |-> TRUE, op |-> mock_op.op,
                simulation |-> IF ~result.signature_failed /\ result.in_valid_time_range
                               THEN Some(result) ELSE None]
          [] result.kind = "Violations" ->
               [ok |-> TRUE, op |-> mock_op.op, simulation |-> None]
          [] OTHER -> [ok |-> FALSE, op |-> mock_op.op, simulation |-> None]

\* the index of the group of aggregator in the insertion-ordered map, 0 if none
group_index(groups, aggregator) ==
    IF \E i \in 1..Len(groups) : groups[i].aggregator = aggregator
    THEN CHOOSE i \in 1..Len(groups) : groups[i].aggregator = aggregator
    ELSE 0

\* groups_by_aggregator.entry(aggregator).or_default().ops_with_simulations.push(..)
push_op(groups, aggregator, op_with_simulation) ==
    IF group_index(groups, aggregator) = 0
    THEN Append(groups, [aggregator |-> aggregator,
                         ops_with_simulations |-> << op_with_simulation >>,
                         signature |-> << >>])
    ELSE [groups EXCEPT ![group_index(groups, aggregator)].ops_with_simulations =
              Append(@, op_with_simulation)]

\* groups_by_aggregator.remove(&aggregator)
remove_group(groups, aggregator) == SelectSeq(groups, LAMBDA g : g.aggregator # aggregator)

\* op.paymaster() == Some(address) / op.factory() == Some(address)
op_uses(op, kind, address) ==
    IF kind = "Paymaster" THEN op.paymaster = Some(address)
    ELSE IF kind = "Factory" THEN op.factory = Some(address)
    ELSE FALSE

group_uses(group, kind, address) ==
    \E i \in 1..Len(group.ops_with_simulations) :
        op_uses(group.ops_with_simulations[i].op, kind, address)

\* a rejection that removes only the first op that uses the entity
filter_reject_first_only(self, kind, address) ==
    LET groups == self.groups_by_aggregator
        using == { i \in 1..Len(groups) : group_uses(groups[i], kind, address) }
    IN  IF using = {} THEN [context |-> self, changed_aggregators |-> << >>]
        ELSE LET g == CHOOSE i \in using : \A k \in using : i <= k
                 ops == groups[g].ops_with_simulations
                 hits == { j \in 1..Len(ops) : op_uses(ops[j].op, kind, address) }
                 first == CHOOSE j \in hits : \A k \in hits : j <= k
                 kept == SubSeq(ops, 1, first - 1) \o SubSeq(ops, first + 1, Len(ops))
                 replaced == [groups EXCEPT ![g].ops_with_simulations = kept]
             IN  [context |-> [self EXCEPT !.groups_by_aggregator =
                                  SelectSeq(replaced,
                                            LAMBDA x : x.ops_with_simulations # << >>)],
                  changed_aggregators |->
                      IF kept # << >> /\ groups[g].aggregator # None
                      THEN << groups[g].aggregator[1] >> ELSE << >>]

\* ProposalContext::filter_reject with the filter of reject_paymaster /
\* reject_factory
filter_reject(self, kind, address) ==
    LET groups == self.groups_by_aggregator
        filtered == [i \in 1..Len(groups) |->
                        IF group_uses(groups[i], kind, address)
                        THEN [groups[i] EXCEPT !.ops_with_simulations =
                                 SelectSeq(@, LAMBDA o : ~op_uses(o.op, kind, address))]
                        ELSE groups[i]]
        changed == SelectSeq(filtered,
                             LAMBDA g : /\ group_uses(groups[group_index(groups, g.aggregator)],
                                                      kind, address)
                                        /\ g.ops_with_simulations # << >>
                                        /\ g.aggregator # None)
    IN  [context |-> [self EXCEPT !.groups_by_aggregator =
                          SelectSeq(filtered, LAMBDA g : g.ops_with_simulations # << >>)],
         changed_aggregators |-> [i \in 1..Len(changed) |-> changed[i].aggregator[1]]]

\* ProposalContext::reject_aggregator
reject_aggregator(self, address) ==
    [self EXCEPT !.groups_by_aggregator = remove_group(@, Some(address))]

\* ProposalContext::reject_entity
context_reject_entity(self, entity) ==
    LET r == IF entity.kind = "Aggregator"
             THEN [context |-> reject_aggregator(self, entity.address),
                   changed_aggregators |-> << >>]
             ELSE filter_reject(self, entity.kind, entity.address)
    IN  [context |-> [r.context EXCEPT !.rejected_entities = Append(@, entity)],
         changed_aggregators |-> r.changed_aggregators]

RECURSIVE locate_without_carry(_, _, _)
\* a walk that does not subtract the lengths of the groups it passes
locate_without_carry(groups, g, remaining_i) ==
    IF g > Len(groups) THEN << 0, 0 >>
    ELSE IF remaining_i < Len(groups[g].ops_with_simulations) THEN << g, remaining_i + 1 >>
    ELSE locate_without_carry(groups, g + 1, remaining_i)

RECURSIVE locate(_, _, _)
\* the walk of get_op_at and reject_index over the groups from group g on:
\* << group, index within it >>, or << 0, 0 >> when the index is out of bounds
locate(groups, g, remaining_i) ==
    IF g > Len(groups) THEN << 0, 0 >>
    ELSE IF remaining_i < Len(groups[g].ops_with_simulations) THEN << g, remaining_i + 1 >>
    ELSE locate(groups, g + 1, remaining_i - Len(groups[g].ops_with_simulations))

\* ProposalContext::get_op_at
get_op_at(self, index) ==
    LET at == locate(self.groups_by_aggregator, 1, index)
    IN  IF at[1] = 0 THEN None
        ELSE Some(self.groups_by_aggregator[at[1]].ops_with_simulations[at[2]].op)

remove_at(s, i) == SubSeq(s, 1, i - 1) \o SubSeq(s, i + 1, Len(s))

\* ProposalContext::reject_index: changed is the aggregator whose signature
\* may need to be recomputed, an Option<Address>
context_reject_index(self, i) ==
    LET groups == self.groups_by_aggregator
        at == locate(groups, 1, i)
    IN  IF at[1] = 0 THEN [context |-> self, changed |-> None]
        ELSE LET rejected == groups[at[1]].ops_with_simulations[at[2]]
                 found_aggregator == groups[at[1]].aggregator
                 removed == [groups EXCEPT ![at[1]].ops_with_simulations = remove_at(@, at[2])]
                 pushed == [self EXCEPT !.rejected_ops = Append(@, rejected.op)]
             IN  IF removed[at[1]].ops_with_simulations = << >>
                 THEN [context |-> [pushed EXCEPT !.groups_by_aggregator =
                                       remove_group(removed, found_aggregator)],
                       changed |-> None]
                 ELSE [context |-> [pushed EXCEPT !.groups_by_aggregator = removed],
                       changed |-> found_aggregator]

\* the ids of the ops of a group, in order
op_ids(group) ==
    [i \in 1..Len(group.ops_with_simulations) |-> group.ops_with_simulations[i].op.id]

\* what provider.aggregate_signatures answers for a group: "sig" is
\* Ok(Some(signature over the group's ops)), "none" Ok(None), "err" Err
aggregate_signatures(aggregator, group, agg_results) ==
    IF agg_results[aggregator] = "sig"
    THEN [kind |-> "sig", signature |-> << aggregator, op_ids(group) >>]
    ELSE [kind |-> agg_results[aggregator], signature |-> << >>]

\* ProposalContext::apply_aggregation_signature_result
apply_aggregation_signature_result(self, aggregator, result) ==
    CASE result.kind = "sig" ->
           [self EXCEPT !.groups_by_aggregator[
                            group_index(self.groups_by_aggregator, Some(aggregator))
                        ].signature = result.signature]
      [] result.kind = "none" -> reject_aggregator(self, aggregator)
      [] OTHER -> [self EXCEPT !.groups_by_aggregator = remove_group(@, Some(aggregator))]

RECURSIVE apply_signature_results(_, _, _, _, _)
apply_signature_results(self, start, aggregators, i, agg_results) ==
    IF i > Len(aggregators) THEN self
    ELSE IF group_index(start.groups_by_aggregator, Some(aggregators[i])) = 0
    THEN apply_signature_results(self, start, aggregators, i + 1, agg_results)
    ELSE apply_signature_results(
             apply_aggregation_signature_result(
                 self, aggregators[i],
                 aggregate_signatures(
                     aggregators[i],
                     start.groups_by_aggregator[
                         group_index(start.groups_by_aggregator, Some(aggregators[i]))],
                     agg_results)),
             start, aggregators, i + 1, agg_results)

\* BundleProposerImpl::compute_aggregator_signatures: the signatures are asked
\* for the groups as they stand, then the results are applied in order
compute_aggregator_signatures(context, aggregators, agg_results) ==
    apply_signature_results(context, context, aggregators, 1, agg_results)

\* BundleProposerImpl::compute_all_aggregator_signatures
compute_all_aggregator_signatures(context, agg_results) ==
    LET keyed == SelectSeq(context.groups_by_aggregator, LAMBDA g : g.aggregator # None)
    IN  compute_aggregator_signatures(
            context, [i \in 1..Len(keyed) |-> keyed[i].aggregator[1]], agg_results)

\* a rejection by index that leaves the signature of the group as it was
reject_index_keeping_signature(context, i, agg_results) ==
    context_reject_index(context, i).context

\* BundleProposerImpl::reject_index
reject_index(context, i, agg_results) ==
    LET r == context_reject_index(context, i)
    IN  compute_aggregator_signatures(r.context, r.changed, agg_results)

\* BundleProposerImpl::reject_entity
reject_entity(context, entity, agg_results) ==
    LET r == context_reject_entity(context, entity)
    IN  compute_aggregator_signatures(r.context, r.changed_aggregators, agg_results)

\* assemble_context's test of an op's simulation: it accessed the sender of
\* another op of the batch
accesses_no_sender(op, simulation, all_sender_addresses) == FALSE
accesses_other_sender(op, simulation, all_sender_addresses) ==
    \E address \in simulation.accessed_addresses :
        address # op.sender /\ address \in all_sender_addresses

\* *balance -= max_cost for the paymaster of op, if it has one
debit_nothing(balances_by_paymaster, op) == balances_by_paymaster
debit_max_cost(balances_by_paymaster, op) ==
    IF op.paymaster = None THEN balances_by_paymaster
    ELSE [balances_by_paymaster EXCEPT ![op.paymaster[1]] = @ - op.max_gas_cost]

RECURSIVE assemble_ops(_, _, _, _)
\* the loop of assemble_context over ops_with_simulations from index i on; acc
\* holds groups_by_aggregator, rejected_ops, paymasters_to_reject and
\* balances_by_paymaster
assemble_ops(ops_with_simulations, i, all_sender_addresses, acc) ==
    IF i > Len(ops_with_simulations) THEN acc
    ELSE LET op == ops_with_simulations[i].op
             simulation == ops_with_simulations[i].simulation
             next(a) == assemble_ops(ops_with_simulations, i + 1, all_sender_addresses, a)
         IN  IF simulation = None
             THEN next([acc EXCEPT !.rejected_ops = Append(@, op)])
             ELSE IF accesses_other_sender(op, simulation[1], all_sender_addresses)
             THEN next(acc)
             ELSE IF op.paymaster # None
                     /\ op.paymaster[1] \notin DOMAIN acc.balances_by_paymaster
             THEN next(acc)
             ELSE IF op.paymaster # None
                     /\ acc.balances_by_paymaster[op.paymaster[1]] < op.max_gas_cost
             THEN next([acc EXCEPT !.paymasters_to_reject = Append(@, op.paymaster[1])])
             ELSE next([acc EXCEPT
                          !.balances_by_paymaster = debit_max_cost(@, op),
                          !.groups_by_aggregator =
                              push_op(@, simulation[1].aggregator,
                                      [op |-> op, simulation |-> simulation[1]])])

RECURSIVE reject_paymasters(_, _, _)
reject_paymasters(context, paymasters_to_reject, i) ==
    IF i > Len(paymasters_to_reject) THEN context
    ELSE reject_paymasters(
             context_reject_entity(context, Entity("Paymaster", paymasters_to_reject[i])).context,
             paymasters_to_reject, i + 1)

\* BundleProposerImpl::assemble_context
assemble_context(ops_with_simulations, balances_by_paymaster, agg_results) ==
    LET all_sender_addresses ==
            { ops_with_simulations[i].op.sender : i \in 1..Len(ops_with_simulations) }
        acc == assemble_ops(ops_with_simulations, 1, all_sender_addresses,
                            [groups_by_aggregator |-> << >>,
                             rejected_ops |-> << >>,
                             paymasters_to_reject |-> << >>,
                             balances_by_paymaster |-> balances_by_paymaster])
        context == [groups_by_aggregator |-> acc.groups_by_aggregator,
                    rejected_ops |-> acc.rejected_ops,
                    rejected_entities |-> << >>]
    IN  compute_all_aggregator_signatures(
            reject_paymasters(context, acc.paymasters_to_reject, 1), agg_results)

FactoryErrors == { <<"A","A","1","3">>, <<"A","A","1","4">>, <<"A","A","1","5">> }
PaymasterErrors == { <<"A","A","3","0">>, <<"A","A","3","1">>, <<"A","A","3","3">>,
                     <<"A","A","3","4">> }

\* BundleProposerImpl::process_failed_op; message is the sequence of the
\* characters of the revert reason.  status is "ok", "err" (the function
\* returned Err) or "panic" (&message[..4] on a shorter message)
process_failed_op(context, index, message, agg_results) ==
    IF Len(message) < 4 THEN [status |-> "panic", context |-> context]
    ELSE IF SubSeq(message, 1, 4) \in FactoryErrors
    THEN IF get_op_at(context, index) = None
         THEN [status |-> "err", context |-> context]
         ELSE IF get_op_at(context, index)[1].factory = None
         THEN [status |-> "err", context |-> context]
         ELSE [status |-> "ok",
               context |-> reject_entity(
                   context, Entity("Factory", get_op_at(context, index)[1].factory[1]),
                   agg_results)]
    ELSE IF SubSeq(message, 1, 4) \in PaymasterErrors
    THEN IF get_op_at(context, index) = None
         THEN [status |-> "err", context |-> context]
         ELSE IF get_op_at(context, index)[1].paymaster = None
         THEN [status |-> "err", context |-> context]
         ELSE [status |-> "ok",
               context |-> reject_entity(
                   context, Entity("Paymaster", get_op_at(context, index)[1].paymaster[1]),
                   agg_results)]
    ELSE [status |-> "ok", context |-> reject_index(context, index, agg_results)]

\* BundleProposerImpl::estimate_gas_rejecting_failed_ops on the answer out of
\* entry_point.estimate_handle_ops_gas; gas_estimate is an Option
estimate_gas_rejecting_failed_ops(context, out, agg_results) ==
    CASE out.kind = "Err" -> [status |-> "err", gas_estimate |-> None, context |-> context]
      [] out.kind = "SuccessWithGas" ->
           [status |-> "ok", gas_estimate |-> Some(out.gas), context |-> context]
      [] out.kind = "FailedOp" ->
           [status |-> process_failed_op(context, out.index, out.message, agg_results).status,
            gas_estimate |-> None,
            context |-> process_failed_op(context, out.index, out.message, agg_results).context]
      [] OTHER ->
           [status |-> "ok", gas_estimate |-> None,
            context |-> reject_entity(context, Entity("Aggregator", out.aggregator),
                                      agg_results)]

\* ProposalContext::to_ops_per_aggregator (the null aggregator is address 0)
to_ops_per_aggregator(self) ==
    [i \in 1..Len(self.groups_by_aggregator) |->
        [user_ops |-> [j \in 1..Len(self.groups_by_aggregator[i].ops_with_simulations) |->
                          self.groups_by_aggregator[i].ops_with_simulations[j].op],
         aggregator |-> IF self.groups_by_aggregator[i].aggregator = None THEN 0
                        ELSE self.groups_by_aggregator[i].aggregator[1],
         signature |-> self.groups_by_aggregator[i].signature]]

\* the Bundle make_bundle returns once the estimation succeeded
full_bundle(context, gas_estimate, max_priority_fee_per_gas) ==
    [ops_per_aggregator |-> to_ops_per_aggregator(context),
     gas_estimate |-> gas_estimate,
     max_priority_fee_per_gas |-> max_priority_fee_per_gas,
     rejected_ops |-> context.rejected_ops,
     rejected_entities |-> context.rejected_entities]

\* the Bundle make_bundle returns once the context is empty
empty_bundle(context) ==
    [ops_per_aggregator |-> << >>,
     gas_estimate |-> 0,
     max_priority_fee_per_gas |-> 0,
     rejected_ops |-> context.rejected_ops,
     rejected_entities |-> context.rejected_entities]

\* make_bundle from the pool's ops to the assembled context: the fee filter,
\* the simulations (those that failed with an error are dropped) and
\* assemble_context
make_bundle_context(ops, max_priority_fee_per_gas, balances_by_paymaster, agg_results) ==
    LET eligible == SelectSeq(ops, LAMBDA m : fee_eligible(m.op, max_priority_fee_per_gas))
        simulated == [i \in 1..Len(eligible) |-> simulate_validation(eligible[i])]
        succeeded == SelectSeq(simulated, LAMBDA r : r.ok)
    IN  assemble_context(
            [i \in 1..Len(succeeded) |->
                [op |-> succeeded[i].op, simulation |-> succeeded[i].simulation]],
            balances_by_paymaster, agg_results)

(***************************************************************************)
(* State.                                                                  *)
(***************************************************************************)
VARIABLES
    \* chain tracker
    blocks,          \* Chain.blocks, oldest first
    overflowChecks,  \* whether the build panics on integer overflow
    prevBlocks,      \* the window before the last sync_to_block call
    lastHead,        \* the hash of the head given to the last call
    lastRpcOk,       \* whether the provider answered every request of the last call
    lastResult,      \* "none" | "ok" | "err" | "panic": how the last call ended
    lastPath,        \* "none" | "reset" | "incremental"
    lastUpdate,      \* the ChainUpdate of the last call, when it returned Ok
    tracking,        \* whether the emitted updates are accumulated
    syncs,           \* the number of calls made while accumulating
    minedSoFar,      \* hashes emitted in mined_ops by the updates so far
    unminedSoFar,    \* hashes emitted in unmined_ops by the updates so far
    net,             \* per hash: emissions in mined_ops minus those in unmined_ops
    wpc,             \* "off" | "running" | "cancelled" | "panicked": the watcher task
    block_hash,      \* wait_for_update's block_hash: the head hash last seen
    broadcast,       \* the update the last watcher step sent on the channel, if any
    lastSent,        \* latest_block_hash of the last update sent on the channel, if any
    sentBefore,      \* latest_block_hash of the update sent before that one, if any
    \* deduped_ops
    dedupIn,         \* the ChainUpdate given to deduped_ops
    dedupOut,        \* its DedupedOps, << >> before the call
    \* transaction tracker
    inner,           \* TransactionTrackerImplInner: nonce, transactions, has_dropped, attempt_count
    senderKind,      \* "raw" | "dropping": the TransactionSender in use
    externalNonce,   \* the account's transaction count at the node
    nodeTxs,         \* per transaction hash, what the node knows of it
    blockNumber,     \* the node's block number
    sentCount,       \* the number of transactions the sender has submitted
    tpc,             \* "idle" | "polling": where send_transaction_and_wait stands
    endBlock,        \* end_block_number of the wait in flight
    tPre,            \* inner before the last tracker step
    tOp,             \* "none" | "send" | "poll" | "check" | "refused" | "node": the last step
    tTx,             \* the transaction given to the last send_transaction_and_wait
    tSenderCalled,   \* whether the last step called sender.send_transaction
    tExternalNonce,  \* the external nonce the last step read, if it read one
    tOut,            \* what the last step returned ("Waiting": not returned yet)
    \* bundle proposer
    poolOps,         \* what the pool hands out, each op with the result of its simulation
    priorityFee,     \* the provider's quote, 0 when dynamic fees are disabled
    deposits,        \* the deposit of each paymaster of the pool's ops
    ppc,             \* "idle" | "estimating" | "done": where make_bundle stands
    context,         \* the ProposalContext
    estimates,       \* the estimate_handle_ops_gas calls made so far
    bundleResult     \* what make_bundle returned, status "none" before it returns

watcherVars == << wpc, block_hash, broadcast, lastSent, sentBefore >>
chainVars == << blocks, overflowChecks, prevBlocks, lastHead, lastRpcOk, lastResult, lastPath,
                lastUpdate, tracking, syncs, minedSoFar, unminedSoFar, net, watcherVars >>
dedupVars == << dedupIn, dedupOut >>
trackerVars == << inner, senderKind, externalNonce, nodeTxs, blockNumber, sentCount,
                  tpc, endBlock, tPre, tOp, tTx, tSenderCalled, tExternalNonce, tOut >>
proposerVars == << poolOps, priorityFee, deposits, ppc, context, estimates, bundleResult >>
vars == << chainVars, dedupVars, trackerVars, proposerVars >>

RECURSIVE Tally(_, _, _)
\* the counters with d added for each op of the list
Tally(counters, ops, d) ==
    IF ops = << >> THEN counters
    ELSE Tally([counters EXCEPT ![Head(ops).hash] = @ + d], Tail(ops), d)

\* no watcher task was spawned: sync_to_block is called directly
WatcherOff ==
    /\ wpc = "off"
    /\ block_hash = ZeroHash
    /\ broadcast = None
    /\ lastSent = None
    /\ sentBefore = None

ChainInit(track) ==
    /\ WatcherOff
    /\ blocks = << >>
    /\ overflowChecks \in BOOLEAN
    /\ prevBlocks = << >>
    /\ lastHead = ZeroHash
    /\ lastRpcOk = TRUE
    /\ lastResult = "none"
    /\ lastPath = "none"
    /\ lastUpdate = NoUpdate
    /\ tracking = track
    /\ syncs = 0
    /\ minedSoFar = {}
    /\ unminedSoFar = {}
    /\ net = IF track THEN [h \in AllOpHashes |-> 0] ELSE << >>

DedupIdle ==
    /\ dedupIn = NoUpdate
    /\ dedupOut = << >>

\* One call of sync_to_block with the head the node reports.
SyncToBlock(head_hash, rpc_ok) ==
    /\ wpc = "off"
    /\ lastResult # "panic"
    /\ tracking => syncs < MaxSyncs
    /\ \E r \in { sync_to_block(blocks, head_hash, rpc_ok, overflowChecks) } :
        /\ blocks' = r.blocks
        /\ prevBlocks' = blocks
        /\ lastHead' = head_hash
        /\ lastRpcOk' = rpc_ok
        /\ lastResult' = r.status
        /\ lastPath' = r.path
        /\ lastUpdate' = r.update
        /\ IF tracking /\ r.status = "ok"
           THEN /\ minedSoFar' = minedSoFar \cup hash_set(r.update.mined_ops)
                /\ unminedSoFar' = unminedSoFar \cup hash_set(r.update.unmined_ops)
                /\ net' = Tally(Tally(net, r.update.mined_ops, 1),
                                 r.update.unmined_ops, -1)
           ELSE UNCHANGED << minedSoFar, unminedSoFar, net >>
        /\ syncs' = IF tracking THEN syncs + 1 ELSE syncs
        /\ UNCHANGED << overflowChecks, tracking, watcherVars >>

ChainNext ==
    /\ \E head_hash \in BlockHashes, rpc_ok \in BOOLEAN : SyncToBlock(head_hash, rpc_ok)
    /\ UNCHANGED << dedupVars, trackerVars, proposerVars >>

TrackerIdle ==
    /\ inner = new_inner(0)
    /\ senderKind = "raw"
    /\ externalNonce = 0
    /\ nodeTxs = << >>
    /\ blockNumber = 0
    /\ sentCount = 0
    /\ tpc = "idle"
    /\ endBlock = 0
    /\ tPre = new_inner(0)
    /\ tOp = "none"
    /\ tTx = None
    /\ tSenderCalled = FALSE
    /\ tExternalNonce = None
    /\ tOut = Update("None")

EmptyContext == [groups_by_aggregator |-> << >>, rejected_ops |-> << >>,
                 rejected_entities |-> << >>]
NoResult == [status |-> "none", reason |-> "", bundle |-> None]

ProposerIdle ==
    /\ poolOps = << >>
    /\ priorityFee = 0
    /\ deposits = << >>
    /\ ppc = "idle"
    /\ context = EmptyContext
    /\ estimates = 0
    /\ bundleResult = NoResult

\* The chain tracker driven by arbitrary heads of the node's block tree.
Init == ChainInit(FALSE) /\ DedupIdle /\ TrackerIdle /\ ProposerIdle
Next == ChainNext
Spec == Init /\ [][Next]_vars

\* The same, with the emitted updates accumulated over at most MaxSyncs calls.
InitHistory == ChainInit(TRUE) /\ DedupIdle /\ TrackerIdle /\ ProposerIdle
SpecHistory == InitHistory /\ [][Next]_vars

(***************************************************************************)
(* The watcher task of spawn_watcher.                                      *)
(***************************************************************************)
\* block_watcher::wait_for_new_block returns once the node's head hash
\* differs from the hash last seen
wait_for_new_block(head_hash, last_block_hash) == head_hash # last_block_hash

\* the hash at the back of the window, H256::zero() for an empty window
back_hash_or_default(window) ==
    IF window = << >> THEN ZeroHash ELSE window[Len(window)].hash

\* One turn of the watcher in which wait_for_new_block returned a head:
\* sync_to_block on it, then the update is sent and wait_for_update is
\* entered again (Ok), or the error is logged and the loop of
\* wait_for_update goes on (Err); a panic of sync_to_block ends the task.
WatcherPoll(head_hash, rpc_ok) ==
    /\ wpc = "running"
    /\ wait_for_new_block(head_hash, block_hash)
    /\ \E r \in { sync_to_block(blocks, head_hash, rpc_ok, overflowChecks) } :
          /\ blocks' = r.blocks
          /\ prevBlocks' = blocks
          /\ lastHead' = head_hash
          /\ lastRpcOk' = rpc_ok
          /\ lastResult' = r.status
          /\ lastPath' = r.path
          /\ lastUpdate' = r.update
          /\ wpc' = IF r.status = "panic" THEN "panicked" ELSE "running"
          /\ broadcast' = IF r.status = "ok" THEN Some(r.update) ELSE None
          /\ lastSent' = IF r.status = "ok" THEN Some(r.update.latest_block_hash)
                          ELSE lastSent
          /\ sentBefore' = IF r.status = "ok" THEN lastSent ELSE sentBefore
          /\ block_hash' = IF r.status = "ok" THEN back_hash_or_default(r.blocks)
                            ELSE head_hash
    /\ UNCHANGED << overflowChecks, tracking, syncs, minedSoFar, unminedSoFar, net >>
    /\ UNCHANGED << dedupVars, trackerVars, proposerVars >>

\* shutdown_token.cancelled() wins the select!: the loop breaks
Cancel ==
    /\ wpc = "running"
    /\ wpc' = "cancelled"
    /\ broadcast' = None
    /\ UNCHANGED << blocks, overflowChecks, prevBlocks, lastHead, lastRpcOk, lastResult,
                    lastPath, lastUpdate, tracking, syncs, minedSoFar, unminedSoFar, net,
                    block_hash, lastSent, sentBefore >>
    /\ UNCHANGED << dedupVars, trackerVars, proposerVars >>

WatcherNext ==
    \/ \E head_hash \in BlockHashes, rpc_ok \in BOOLEAN : WatcherPoll(head_hash, rpc_ok)
    \/ Cancel

\* spawn_watcher on a new Chain
WatcherInit ==
    /\ wpc = "running"
    /\ block_hash = ZeroHash
    /\ broadcast = None
    /\ lastSent = None
    /\ sentBefore = None
    /\ blocks = << >>
    /\ overflowChecks \in BOOLEAN
    /\ prevBlocks = << >>
    /\ lastHead = ZeroHash
    /\ lastRpcOk = TRUE
    /\ lastResult = "none"
    /\ lastPath = "none"
    /\ lastUpdate = NoUpdate
    /\ tracking = FALSE
    /\ syncs = 0
    /\ minedSoFar = {}
    /\ unminedSoFar = {}
    /\ net = << >>

InitWatcher == WatcherInit /\ DedupIdle /\ TrackerIdle /\ ProposerIdle
SpecWatcher == InitWatcher /\ [][WatcherNext]_vars

(***************************************************************************)
(* deduped_ops applied to an arbitrary ChainUpdate.                        *)
(***************************************************************************)
MaxDedupLen == 2
MaxDedupHash == 2
DedupOps == [hash : 1..MaxDedupHash, actual_gas_cost : 1..2]
DedupLists == UNION { [1..n -> DedupOps] : n \in 0..MaxDedupLen }

ChainIdle ==
    /\ WatcherOff
    /\ blocks = << >>
    /\ overflowChecks = FALSE
    /\ prevBlocks = << >>
    /\ lastHead = ZeroHash
    /\ lastRpcOk = TRUE
    /\ lastResult = "none"
    /\ lastPath = "none"
    /\ lastUpdate = NoUpdate
    /\ tracking = FALSE
    /\ syncs = 0
    /\ minedSoFar = {}
    /\ unminedSoFar = {}
    /\ net = << >>

DedupInit ==
    /\ \E m \in DedupLists, u \in DedupLists :
          dedupIn = [mined_ops |-> m, unmined_ops |-> u]
    /\ dedupOut = << >>

Dedup ==
    /\ dedupOut = << >>
    /\ dedupOut' = << deduped_ops(dedupIn) >>
    /\ UNCHANGED dedupIn

DedupNext == Dedup /\ UNCHANGED << chainVars, trackerVars, proposerVars >>
InitDedup == ChainIdle /\ DedupInit /\ TrackerIdle /\ ProposerIdle
SpecDedup == InitDedup /\ [][DedupNext]_vars

(***************************************************************************)
(* TRANSACTION TRACKER: the tracker, its sender and the node.              *)
(***************************************************************************)
TxHashes == 1..MaxTxs
UnknownTx == [state |-> "unknown", nonce |-> 0, block_number |-> 0]

\* sender.get_transaction_status for every hash, as the node stands
StatusOf == [h \in TxHashes |-> get_transaction_status(senderKind, nodeTxs[h])]

TxInputs == [nonce : {None} \cup { Some(n) : n \in 0..MaxExternalNonce },
             gas_fees : GasFeesSet]
Failures == {"none", "nonce", "status", "block"}
\* The outcomes of the sender and of the provider that a call given tx can
\* meet: a rejected transaction meets none, a failed send never reads the
\* block number, a successful one never reads the nonce or a status.
\* What get_transaction_count can answer: the node's count, or the count of
\* before the node's last block when the read raced it.
NonceReads == {externalNonce} \cup { n \in {externalNonce - 1} : n >= 0 }
SendNonceReads(tx, send_ok) ==
    IF validate_transaction(inner, tx) /\ ~send_ok THEN NonceReads ELSE {externalNonce}
SendOutcomes(tx) == IF validate_transaction(inner, tx) THEN BOOLEAN ELSE {TRUE}
SendFailures(tx, send_ok) ==
    IF ~validate_transaction(inner, tx) THEN {"none"}
    ELSE IF send_ok THEN {"none", "block"}
    ELSE {"none", "nonce", "status"}

TrackerInit ==
    /\ inner = new_inner(0)
    /\ senderKind \in {"raw", "dropping"}
    /\ externalNonce = 0
    /\ nodeTxs = [h \in TxHashes |-> UnknownTx]
    /\ blockNumber = 0
    /\ sentCount = 0
    /\ tpc = "idle"
    /\ endBlock = 0
    /\ tPre = new_inner(0)
    /\ tOp = "none"
    /\ tTx = None
    /\ tSenderCalled = FALSE
    /\ tExternalNonce = None
    /\ tOut = Update("None")

\* an accessor that hands out the inner state whether or not a call holds it
lock_always_acquired(pc) == TRUE
\* TransactionTrackerImpl::inner: try_lock succeeds iff no call holds the
\* guard; a call holds it from its entry to its return, sleeps included.
try_lock(pc) == pc = "idle"

\* a wait that ends only once the block number has passed the deadline
wait_step_outcome_past_deadline(r, end_block_number, current_block_number, fail) ==
    IF r.out.kind # "None" THEN r.out
    ELSE IF fail = "block" THEN Update("ProviderError")
    ELSE IF end_block_number < current_block_number THEN Update("StillPendingAfterWait")
    ELSE Update("Waiting")

\* How a step of wait_for_update_or_new_blocks ends after check_for_update_now
\* returned r: the update, or StillPendingAfterWait at the deadline, or a sleep.
wait_step_outcome(r, end_block_number, current_block_number, fail) ==
    IF r.out.kind # "None" THEN r.out
    ELSE IF fail = "block" THEN Update("ProviderError")
    ELSE IF end_block_number <= current_block_number THEN Update("StillPendingAfterWait")
    ELSE Update("Waiting")

\* send_transaction_and_wait up to the first poll: validation, the send, the
\* record of the sent transaction and the read of the starting block.
SendTransactionAndWait(tx, send_ok, fail, external_nonce) ==
    /\ UNCHANGED << chainVars, dedupVars, proposerVars >>
    /\ try_lock(tpc)
    /\ tPre' = inner
    /\ tOp' = "send"
    /\ tTx' = Some(tx)
    /\ IF ~validate_transaction(inner, tx)
       THEN /\ tOut' = Update("InvalidSubmission")
            /\ tSenderCalled' = FALSE
            /\ tExternalNonce' = None
            /\ UNCHANGED << inner, nodeTxs, sentCount, tpc, endBlock >>
       ELSE IF ~send_ok
       THEN \E r \in { handle_send_error(inner, external_nonce, StatusOf, fail) } :
                /\ inner' = r.inner
                /\ tOut' = r.out
                /\ tSenderCalled' = TRUE
                /\ tExternalNonce' = IF fail = "nonce" THEN None ELSE Some(external_nonce)
                /\ UNCHANGED << nodeTxs, sentCount, tpc, endBlock >>
       ELSE /\ sentCount < MaxTxs
            /\ sentCount' = sentCount + 1
            /\ nodeTxs' = [nodeTxs EXCEPT ![sentCount + 1] =
                              [state |-> "pending", nonce |-> tx.nonce[1], block_number |-> 0]]
            /\ inner' = record_sent_transaction(inner, sentCount + 1, tx.gas_fees)
            /\ tSenderCalled' = TRUE
            /\ tExternalNonce' = None
            /\ IF fail = "block"
               THEN /\ tOut' = Update("ProviderError")
                    /\ UNCHANGED << tpc, endBlock >>
               ELSE /\ tOut' = Update("Waiting")
                    /\ tpc' = "polling"
                    /\ endBlock' = blockNumber + max_blocks_to_wait_for_mine
    /\ UNCHANGED << senderKind, externalNonce, blockNumber >>

\* One iteration of the loop of wait_for_update_or_new_blocks.
WaitPoll(fail, external_nonce) ==
    /\ UNCHANGED << chainVars, dedupVars, proposerVars >>
    /\ tpc = "polling"
    /\ tPre' = inner
    /\ tOp' = "poll"
    /\ tSenderCalled' = FALSE
    /\ tExternalNonce' = IF fail = "nonce" THEN None ELSE Some(external_nonce)
    /\ \E r \in { check_for_update_now(inner, external_nonce, StatusOf, fail) } :
          /\ inner' = r.inner
          /\ tOut' = wait_step_outcome(r, endBlock, blockNumber, fail)
          /\ tpc' = IF wait_step_outcome(r, endBlock, blockNumber, fail).kind = "Waiting"
                    THEN "polling" ELSE "idle"
    /\ UNCHANGED << senderKind, externalNonce, nodeTxs, blockNumber, sentCount, endBlock, tTx >>

\* TransactionTracker::check_for_update_now, called while no call is in flight.
CheckForUpdateNow(fail, external_nonce) ==
    /\ UNCHANGED << chainVars, dedupVars, proposerVars >>
    /\ try_lock(tpc)
    /\ fail # "block"
    /\ tPre' = inner
    /\ tOp' = "check"
    /\ tSenderCalled' = FALSE
    /\ tExternalNonce' = IF fail = "nonce" THEN None ELSE Some(external_nonce)
    /\ \E r \in { check_for_update_now(inner, external_nonce, StatusOf, fail) } :
          /\ inner' = r.inner
          /\ tOut' = r.out
    /\ tTx' = None
    /\ UNCHANGED << senderKind, externalNonce, nodeTxs, blockNumber, sentCount, tpc,
                    endBlock >>

\* A call of send_transaction_and_wait or check_for_update_now made while
\* another call holds the guard: self.inner()? returns the error before any
\* other step.
CallRefused ==
    /\ UNCHANGED << chainVars, dedupVars, proposerVars >>
    /\ ~try_lock(tpc)
    /\ tPre' = inner
    /\ tOp' = "refused"
    /\ tTx' = None
    /\ tSenderCalled' = FALSE
    /\ tExternalNonce' = None
    /\ tOut' = Update("BusyTracker")
    /\ UNCHANGED << inner, senderKind, externalNonce, nodeTxs, blockNumber, sentCount, tpc,
                    endBlock >>

\* The steps of the node; each resets the observers of the last tracker step.
\* The node mines a pending transaction of the account in a new block.
NodeMinesTx(h) ==
    /\ UNCHANGED << chainVars, dedupVars, proposerVars >>
    /\ nodeTxs[h].state = "pending"
    /\ nodeTxs[h].nonce = externalNonce
    /\ externalNonce < MaxExternalNonce
    /\ blockNumber < MaxBlockNumber
    /\ blockNumber' = blockNumber + 1
    /\ externalNonce' = externalNonce + 1
    /\ nodeTxs' = [nodeTxs EXCEPT ![h] = [@ EXCEPT !.state = "mined",
                                                    !.block_number = blockNumber + 1]]
    /\ tPre' = inner /\ tOp' = "node" /\ tTx' = None
    /\ tSenderCalled' = FALSE /\ tExternalNonce' = None /\ tOut' = Update("None")
    /\ UNCHANGED << inner, senderKind, sentCount, tpc, endBlock >>

\* The node mines a transaction of the account that the tracker did not send.
NodeMinesOtherTx ==
    /\ UNCHANGED << chainVars, dedupVars, proposerVars >>
    /\ externalNonce < MaxExternalNonce
    /\ blockNumber < MaxBlockNumber
    /\ blockNumber' = blockNumber + 1
    /\ externalNonce' = externalNonce + 1
    /\ tPre' = inner /\ tOp' = "node" /\ tTx' = None
    /\ tSenderCalled' = FALSE /\ tExternalNonce' = None /\ tOut' = Update("None")
    /\ UNCHANGED << inner, senderKind, nodeTxs, sentCount, tpc, endBlock >>

\* The node forgets a pending transaction (evicted from its pool).
NodeForgetsTx(h) ==
    /\ UNCHANGED << chainVars, dedupVars, proposerVars >>
    /\ nodeTxs[h].state = "pending"
    /\ nodeTxs' = [nodeTxs EXCEPT ![h] = [@ EXCEPT !.state = "unknown"]]
    /\ tPre' = inner /\ tOp' = "node" /\ tTx' = None
    /\ tSenderCalled' = FALSE /\ tExternalNonce' = None /\ tOut' = Update("None")
    /\ UNCHANGED << inner, senderKind, externalNonce, blockNumber, sentCount, tpc, endBlock >>

\* A block without any transaction of the account.
NodeNewBlock ==
    /\ UNCHANGED << chainVars, dedupVars, proposerVars >>
    /\ blockNumber < MaxBlockNumber
    /\ blockNumber' = blockNumber + 1
    /\ tPre' = inner /\ tOp' = "node" /\ tTx' = None
    /\ tSenderCalled' = FALSE /\ tExternalNonce' = None /\ tOut' = Update("None")
    /\ UNCHANGED << inner, senderKind, externalNonce, nodeTxs, sentCount, tpc, endBlock >>

TrackerNext ==
    \/ \E tx \in TxInputs :
          \E send_ok \in SendOutcomes(tx) :
             \E fail \in SendFailures(tx, send_ok), external_nonce \in SendNonceReads(tx, send_ok) :
                SendTransactionAndWait(tx, send_ok, fail, external_nonce)
    \/ \E fail \in Failures, external_nonce \in NonceReads : WaitPoll(fail, external_nonce)
    \/ \E fail \in Failures, external_nonce \in NonceReads :
          CheckForUpdateNow(fail, external_nonce)
    \/ CallRefused
    \/ \E h \in TxHashes : NodeMinesTx(h)
    \/ NodeMinesOtherTx
    \/ \E h \in TxHashes : NodeForgetsTx(h)
    \/ NodeNewBlock

InitTracker == ChainIdle /\ DedupIdle /\ TrackerInit /\ ProposerIdle
SpecTracker == InitTracker /\ [][TrackerNext]_vars

\* The same under the scheduling the wait relies on: the loop polls again
\* after each sleep, and the node keeps producing blocks.
SuccessfulPoll == \E external_nonce \in NonceReads : WaitPoll("none", external_nonce)
SpecTrackerLive ==
    /\ InitTracker
    /\ [][TrackerNext]_vars
    /\ WF_vars(SuccessfulPoll)
    /\ WF_vars(NodeNewBlock)

(***************************************************************************)
(* BUNDLE PROPOSER: one make_bundle over a pool, a quote and deposits.     *)
(***************************************************************************)
PriorityFees == (MaxPriorityFee - 1)..MaxPriorityFee
Quotes == {0, MaxPriorityFee - 1}

UserOperations ==
    [sender : Senders,
     paymaster : {None} \cup { Some(a) : a \in Paymasters },
     factory : {None} \cup { Some(a) : a \in Factories },
     max_priority_fee_per_gas : PriorityFees,
     max_gas_cost : 1..MaxGasCost]
SimulationResults ==
    [kind : {"Success", "Violations", "Other"},
     signature_failed : BOOLEAN,
     in_valid_time_range : BOOLEAN,
     accessed_addresses : { a \in SUBSET Senders : Cardinality(a) <= 1 },
     aggregator : {None} \cup { Some(a) : a \in Aggregators }]

UsableSimulation(result) ==
    result.kind = "Success" /\ ~result.signature_failed /\ result.in_valid_time_range

\* The pool entries tried.  What make_bundle never consults for an entry is
\* fixed (the cost of an op without paymaster, the entities and the
\* simulation of an op the fee filter discards, the entities, accesses and
\* aggregator of an op whose simulation is unusable), and an op has at most
\* two of paymaster, factory, aggregator and accessed address, none of them
\* under the quote 0, which lets every fee through.
MockOps(quote) ==
    { m \in [op : UserOperations, simulation_result : SimulationResults] :
        LET op == m.op
            result == m.simulation_result
            features == (IF op.paymaster = None THEN 0 ELSE 1)
                        + (IF op.factory = None THEN 0 ELSE 1)
                        + (IF result.aggregator = None THEN 0 ELSE 1)
                        + Cardinality(result.accessed_addresses)
        IN  /\ op.paymaster = None => op.max_gas_cost = 1
            /\ features <= (IF quote = 0 THEN 0 ELSE 2)
            /\ result.kind # "Success" =>
                   ~result.signature_failed /\ result.in_valid_time_range
            /\ ~(result.signature_failed /\ ~result.in_valid_time_range)
            /\ ~UsableSimulation(result) =>
                   /\ result.accessed_addresses = {} /\ result.aggregator = None
                   /\ op.paymaster = None /\ op.factory = None
            /\ ~fee_eligible(op, quote) =>
                   /\ UsableSimulation(result) /\ features = 0 }

\* the pools of n ops: the op at position i has id i
PoolsOfLength(quote, n) ==
    { [i \in 1..n |-> [op |-> [id |-> i] @@ f[i].op,
                        simulation_result |-> f[i].simulation_result]] :
        f \in [1..n -> MockOps(quote)] }
Pools(quote) == UNION { PoolsOfLength(quote, n) : n \in 0..MaxOps }

\* all_paymaster_addresses of make_bundle
all_paymaster_addresses(ops) ==
    { ops[i].op.paymaster[1] : i \in { j \in 1..Len(ops) : ops[j].op.paymaster # None } }

ProposerInit ==
    /\ priorityFee \in Quotes
    /\ poolOps \in Pools(priorityFee)
    /\ deposits \in [all_paymaster_addresses(poolOps) -> 0..MaxDeposit]
    /\ ppc = "idle"
    /\ context = EmptyContext
    /\ estimates = 0
    /\ bundleResult = NoResult

Messages == FactoryErrors \cup PaymasterErrors
            \cup { <<"A","A","3","2">>, <<"A","A","1","0">>, <<"A","A">> }
HandleOpsOuts ==
    [kind : {"Err"}, gas : {0}, index : {0}, message : {<< >>}, aggregator : {0}]
    \cup [kind : {"SuccessWithGas"}, gas : {1}, index : {0}, message : {<< >>},
          aggregator : {0}]
    \cup [kind : {"FailedOp"}, gas : {0}, index : 0..MaxOps, message : Messages,
          aggregator : {0}]
    \cup [kind : {"SignatureValidationFailed"}, gas : {0}, index : {0}, message : {<< >>},
          aggregator : Aggregators]

\* what provider.aggregate_signatures may answer, per aggregator; one answer
\* is kept when the context has no group with an aggregator to ask for
AggResults(groups) ==
    IF \E i \in 1..Len(groups) : groups[i].aggregator # None
    THEN [Aggregators -> {"sig", "none", "err"}]
    ELSE [Aggregators -> {"sig"}]

\* the aggregators the simulations of the pool's ops name, as group keys
poolOpsGroups ==
    [i \in 1..Len(poolOps) |-> [aggregator |-> poolOps[i].simulation_result.aggregator]]

FetchFailures(ops) ==
    {"none", "pool", "max_priority_fee", "block_hash"}
    \cup (IF all_paymaster_addresses(ops) = {} THEN {} ELSE {"deposits"})

Returned(status, reason, bundle) == [status |-> status, reason |-> reason, bundle |-> bundle]

\* make_bundle up to the first estimation: the fetches, the fee filter, the
\* simulations and assemble_context.  It returns at once when a fetch fails
\* or when the assembled context is empty.
MakeBundle(fail, agg_results) ==
    /\ ppc = "idle"
    /\ IF fail # "none"
       THEN /\ bundleResult' = Returned("Err", fail, None)
            /\ ppc' = "done"
            /\ UNCHANGED context
       ELSE \E assembled \in { make_bundle_context(poolOps, priorityFee, deposits,
                                                   agg_results) } :
               /\ context' = assembled
               /\ IF assembled.groups_by_aggregator = << >>
                  THEN /\ bundleResult' = Returned("Ok", "", Some(empty_bundle(assembled)))
                       /\ ppc' = "done"
                  ELSE /\ ppc' = "estimating"
                       /\ UNCHANGED bundleResult
    /\ UNCHANGED << poolOps, priorityFee, deposits, estimates >>
    /\ UNCHANGED << chainVars, dedupVars, trackerVars >>

\* One iteration of make_bundle's loop: estimate_gas_rejecting_failed_ops on
\* the entry point's answer, then the return or the next iteration.
EstimateGas(out, agg_results) ==
    /\ ppc = "estimating"
    /\ estimates < MaxEstimates
    /\ estimates' = estimates + 1
    /\ \E r \in { estimate_gas_rejecting_failed_ops(context, out, agg_results) } :
          CASE r.status = "panic" ->
                 /\ bundleResult' = Returned("Panic", "message", None)
                 /\ ppc' = "done"
                 /\ context' = r.context
            [] r.status = "err" ->
                 /\ bundleResult' = Returned("Err", IF out.kind = "Err" THEN "estimate"
                                                    ELSE "failed_op", None)
                 /\ ppc' = "done"
                 /\ context' = r.context
            [] r.status = "ok" /\ r.gas_estimate # None ->
                 /\ bundleResult' = Returned("Ok", "", Some(full_bundle(
                                         r.context, r.gas_estimate[1], priorityFee)))
                 /\ ppc' = "done"
                 /\ context' = r.context
            [] OTHER ->
                 /\ context' = r.context
                 /\ IF r.context.groups_by_aggregator = << >>
                    THEN /\ bundleResult' = Returned("Ok", "", Some(empty_bundle(r.context)))
                         /\ ppc' = "done"
                    ELSE /\ ppc' = "estimating"
                         /\ UNCHANGED bundleResult
    /\ UNCHANGED << poolOps, priorityFee, deposits >>
    /\ UNCHANGED << chainVars, dedupVars, trackerVars >>

ProposerNext ==
    \/ \E fail \in FetchFailures(poolOps) :
          \E agg_results \in AggResults(IF fail = "none" THEN poolOpsGroups ELSE << >>) :
             MakeBundle(fail, agg_results)
    \/ \E out \in HandleOpsOuts, agg_results \in AggResults(context.groups_by_aggregator) :
          EstimateGas(out, agg_results)

InitProposer == ChainIdle /\ DedupIdle /\ TrackerIdle /\ ProposerInit
SpecProposer == InitProposer /\ [][ProposerNext]_vars

(***************************************************************************)
(* Properties of the chain tracker.                                        *)
(***************************************************************************)
HashLinked(window) ==
    \A i \in 1..(Len(window) - 1) : window[i + 1].parent_hash = window[i].hash

WindowOpHashes(window) == hash_set(all_ops(window))

RECURSIVE Occurrences(_, _)
Occurrences(ops, h) ==
    IF ops = << >> THEN 0
    ELSE (IF Head(ops).hash = h THEN 1 ELSE 0) + Occurrences(Tail(ops), h)

RECURSIVE IsAncestorOrSelf(_, _)
\* whether block a lies on the chain that ends at block h
IsAncestorOrSelf(a, h) ==
    IF h = ZeroHash THEN FALSE
    ELSE IF a = h THEN TRUE
    ELSE IsAncestorOrSelf(a, ParentHashOf(h))

\* The blocks of the old window that are not on the chain of the new head:
\* the blocks the new chain replaced.
ReplacedBlocks(old, head_hash) ==
    { old[i].hash : i \in { j \in 1..Len(old) : ~IsAncestorOrSelf(old[j].hash, head_hash) } }

\* C1: after any sequence of sync_to_block calls the window is hash-linked,
\* holds at most history_size blocks, and its last block number is at least
\* its first block number.
C1_WindowInvariant ==
    /\ HashLinked(blocks)
    /\ Len(blocks) <= HISTORY_SIZE
    /\ blocks # << >> => blocks[Len(blocks)].number >= blocks[1].number

\* C1 witness: a reorg of depth >= 2 just succeeded and left a full window.
C1_Witness ==
    /\ lastResult = "ok"
    /\ lastPath = "incremental"
    /\ lastUpdate.reorg_depth >= 2
    /\ Len(blocks) = HISTORY_SIZE

\* C2 as stated: after every successful sync, the hashes emitted as mined so
\* far minus the hashes emitted as unmined so far are the hashes of the ops in
\* the window.
C2_Original ==
    lastResult = "ok" => (minedSoFar \ unminedSoFar) = WindowOpHashes(blocks)

\* C2 amended: counting emissions, every op hash has been emitted in mined_ops
\* at least as many times more than in unmined_ops as it occurs in the window
\* (ops of blocks that aged out at the front, or were dropped by a reset, stay
\* counted as mined).
C2_NetMinedCoversWindow ==
    tracking =>
        \A h \in AllOpHashes : net[h] >= Occurrences(all_ops(blocks), h)

\* C2 witness: an op that an earlier update unmined is in the window again, and
\* another op is counted as mined although its block has left the window.
C2_Witness ==
    /\ tracking
    /\ lastResult = "ok"
    /\ \E h \in WindowOpHashes(blocks) : h \in unminedSoFar
    /\ \E h \in AllOpHashes : net[h] > 0 /\ h \notin WindowOpHashes(blocks)

\* C7: deduped_ops returns mined and unmined lists with no hash in common; an
\* op is kept in the deduped mined list iff its hash is not among the update's
\* unmined ops, and in the deduped unmined list iff its hash is not among the
\* update's mined ops.
C7_DedupedDisjoint ==
    dedupOut # << >> =>
        LET d == dedupOut[1]
        IN  /\ hash_set(d.mined_ops) \cap hash_set(d.unmined_ops) = {}
            /\ \A op \in Range(dedupIn.mined_ops) :
                  op \in Range(d.mined_ops) <=>
                      ~(\E u \in Range(dedupIn.unmined_ops) : u.hash = op.hash)
            /\ \A op \in Range(dedupIn.unmined_ops) :
                  op \in Range(d.unmined_ops) <=>
                      ~(\E m \in Range(dedupIn.mined_ops) : m.hash = op.hash)
            /\ Range(d.mined_ops) \subseteq Range(dedupIn.mined_ops)
            /\ Range(d.unmined_ops) \subseteq Range(dedupIn.unmined_ops)

\* C7 witness: an update with a hash both mined and unmined (under different
\* gas costs) and a hash only mined has been deduped.
C7_Witness ==
    /\ dedupOut # << >>
    /\ \E m \in Range(dedupIn.mined_ops), u \in Range(dedupIn.unmined_ops) :
          m.hash = u.hash /\ m # u
    /\ dedupOut[1].mined_ops # << >>

\* C9 as stated: an update has reorg_depth = 0 iff the call replaced no block
\* that was in the window before it.
C9_ReorgDepthZeroIffNoneReplaced ==
    lastResult = "ok" =>
        (lastUpdate.reorg_depth = 0 <=> ReplacedBlocks(prevBlocks, lastHead) = {})

\* C10: presenting again the head the window ends at returns Ok with an update
\* and leaves the window as it was.
C10_SameHeadIdempotent ==
    (/\ lastResult # "none"
     /\ prevBlocks # << >>
     /\ lastHead = prevBlocks[Len(prevBlocks)].hash
     /\ lastRpcOk)
    => /\ lastResult = "ok"
       /\ lastUpdate # NoUpdate
       /\ lastUpdate.latest_block_hash = lastHead
       /\ blocks = prevBlocks

\* C10 witness: the head of a full window holding ops and deposits was
\* presented again.
C10_Witness ==
    /\ lastResult = "ok"
    /\ Len(prevBlocks) = HISTORY_SIZE
    /\ lastHead = prevBlocks[Len(prevBlocks)].hash
    /\ prevBlocks[Len(prevBlocks)].ops # << >>
    /\ \E i \in 1..Len(prevBlocks) : prevBlocks[i].entity_deposits # << >>

RECURSIVE AncestorAt(_, _)
\* the hash of the block numbered n on the chain that ends at block h
AncestorAt(h, n) == IF NumberOf(h) <= n THEN h ELSE AncestorAt(ParentHashOf(h), n)

RECURSIVE ChainOps(_, _, _)
\* the ops of the blocks numbered lo..hi of the chain ending at h, oldest first
ChainOps(h, lo, hi) ==
    IF lo > hi THEN << >>
    ELSE load_mined_ops(AncestorAt(h, lo)) \o ChainOps(h, lo + 1, hi)

RECURSIVE ChainDeposits(_, _, _)
\* the same for the entity deposits
ChainDeposits(h, lo, hi) ==
    IF lo > hi THEN << >>
    ELSE load_entity_deposits(AncestorAt(h, lo)) \o ChainDeposits(h, lo + 1, hi)

\* window holds exactly the blocks lo..hi of the chain ending at h, with their
\* ops and deposits
IsChainSegment(window, h, lo, hi) ==
    /\ Len(window) = hi - lo + 1
    /\ \A i \in 1..Len(window) :
          /\ window[i].number = lo + i - 1
          /\ window[i].hash = AncestorAt(h, lo + i - 1)
          /\ window[i].parent_hash = ParentHashOf(window[i].hash)
          /\ window[i].ops = load_mined_ops(window[i].hash)
          /\ window[i].entity_deposits = load_entity_deposits(window[i].hash)

WindowLowerBound(head_number) ==
    IF head_number - HISTORY_SIZE + 1 > 0 THEN head_number - HISTORY_SIZE + 1 ELSE 0

\* C11: on an empty window a successful sync_to_block(head) fills the window
\* with the blocks max(0, head.number - history_size + 1)..head.number of the
\* head's chain; the update has latest = head, earliest remembered = that
\* lower bound, reorg_depth 0, no unmined ops, reorg_larger_than_history false,
\* and mined_ops = the ops of exactly the window's blocks, oldest first.
C11_InitialLoad ==
    (lastResult = "ok" /\ prevBlocks = << >>) =>
        LET hi == NumberOf(lastHead)
            lo == WindowLowerBound(hi)
        IN  /\ IsChainSegment(blocks, lastHead, lo, hi)
            /\ lastUpdate.latest_block_number = hi
            /\ lastUpdate.latest_block_hash = lastHead
            /\ lastUpdate.earliest_remembered_block_number = lo
            /\ lastUpdate.reorg_depth = 0
            /\ lastUpdate.unmined_ops = << >>
            /\ lastUpdate.reorg_larger_than_history = FALSE
            /\ lastUpdate.mined_ops = ChainOps(lastHead, lo, hi)

\* C11 witness: the first load was of a head lower than history_size - 1 on a
\* side branch, so the window is shorter than history_size and crosses a fork.
C11_Witness ==
    /\ lastResult = "ok"
    /\ prevBlocks = << >>
    /\ NumberOf(lastHead) = 1
    /\ BranchOf(lastHead) = 1
    /\ Len(blocks) = 2
    /\ Len(lastUpdate.mined_ops) = 4

\* The position in the window of the connection point of a new head: the
\* highest-numbered window block that is an ancestor of the head, 0 when the
\* head's chain passes through no block of the window below the head.
ConnectionIndex(window, head_hash) ==
    LET connecting == { i \in 1..Len(window) :
                            IsAncestorOrSelf(window[i].hash, ParentHashOf(head_hash)) }
    IN  IF connecting = {} THEN 0
        ELSE CHOOSE i \in connecting : \A j \in connecting : j <= i

\* the last call took the incremental path and the head's chain connects to a
\* block of the window
IncrementalConnected ==
    /\ lastResult = "ok"
    /\ lastPath = "incremental"
    /\ ConnectionIndex(prevBlocks, lastHead) > 0

\* what C12 says of the update: the depth and the unmined lists
C12_UnminedAboveConnection ==
    LET k == ConnectionIndex(prevBlocks, lastHead)
        current_head == prevBlocks[Len(prevBlocks)]
    IN  /\ lastUpdate.reorg_depth = current_head.number - prevBlocks[k].number
        /\ lastUpdate.unmined_ops = all_ops(Skip(prevBlocks, k))
        /\ lastUpdate.unmined_entity_deposits = all_entity_deposits(Skip(prevBlocks, k))

\* C12 as stated: on the incremental path with the head's chain connecting to
\* window block k, reorg_depth = current_head.number - k.number, the unmined
\* ops and deposits are those of the window blocks above k, oldest first, and
\* every block up to k stays in the window untouched.
C12_Original ==
    IncrementalConnected =>
        /\ C12_UnminedAboveConnection
        /\ \A i \in 1..ConnectionIndex(prevBlocks, lastHead) :
              prevBlocks[i] \in Range(blocks)

\* C12 amended: the same depth and unmined lists; the blocks up to k are not
\* modified, and those of them numbered above new_head.number - history_size
\* stay in the window, while the older ones are evicted at the front.
C12_ReorgUnminesAboveConnection ==
    IncrementalConnected =>
        /\ C12_UnminedAboveConnection
        /\ \A i \in 1..ConnectionIndex(prevBlocks, lastHead) :
              IF prevBlocks[i].number > NumberOf(lastHead) - HISTORY_SIZE
              THEN prevBlocks[i] \in Range(blocks)
              ELSE \A j \in 1..Len(blocks) : blocks[j].number > prevBlocks[i].number

\* C12 witness: a reorg replaced the top block of a full window by a chain
\* one block longer; the connection block stays and the block below it is
\* evicted at the front.
C12_Witness ==
    /\ IncrementalConnected
    /\ Len(prevBlocks) = HISTORY_SIZE
    /\ ConnectionIndex(prevBlocks, lastHead) = 2
    /\ lastUpdate.reorg_depth = 1
    /\ lastUpdate.unmined_ops # << >>
    /\ NumberOf(lastHead) = prevBlocks[Len(prevBlocks)].number + 1
    /\ prevBlocks[2] \in Range(blocks)
    /\ prevBlocks[1] \notin Range(blocks)

\* The number of the oldest block an incremental sync loads: the block above
\* the connection point, or, when the walk does not connect, the block where
\* it stops (the head itself below the window, else the window's first number).
FirstAddedNumber(window, head_hash) ==
    LET k == ConnectionIndex(window, head_hash)
    IN  IF k > 0 THEN window[k].number + 1
        ELSE IF NumberOf(head_hash) < window[1].number THEN NumberOf(head_hash)
        ELSE window[1].number

\* C13: on the incremental path the update's mined_ops and entity_deposits are
\* the ops and deposits of the newly added blocks (the blocks of the new
\* head's chain above the connection point, up to the head), oldest block
\* first; latest_block_number and latest_block_hash are the new head's and
\* earliest_remembered_block_number is the number of the window's first block
\* after eviction.
C13_MinedAreAddedBlocks ==
    (lastResult = "ok" /\ lastPath = "incremental") =>
        LET lo == FirstAddedNumber(prevBlocks, lastHead)
            hi == NumberOf(lastHead)
        IN  /\ lastUpdate.mined_ops = ChainOps(lastHead, lo, hi)
            /\ lastUpdate.entity_deposits = ChainDeposits(lastHead, lo, hi)
            /\ lastUpdate.latest_block_number = hi
            /\ lastUpdate.latest_block_hash = lastHead
            /\ blocks # << >>
            /\ lastUpdate.earliest_remembered_block_number = blocks[1].number
            /\ blocks[Len(blocks)].hash = lastHead
            /\ Len(blocks) <= HISTORY_SIZE

\* C13 witness: the forward reorg of test_forward_reorg, three blocks with ops
\* and a deposit added on top of the second block of a full window.
C13_Witness ==
    /\ IncrementalConnected
    /\ Len(prevBlocks) = HISTORY_SIZE
    /\ ConnectionIndex(prevBlocks, lastHead) = 2
    /\ NumberOf(lastHead) = prevBlocks[Len(prevBlocks)].number + 2
    /\ Len(lastUpdate.mined_ops) = 3
    /\ lastUpdate.entity_deposits # << >>
    /\ lastUpdate.earliest_remembered_block_number = prevBlocks[Len(prevBlocks)].number

\* the op hashes of a list of MinedOps
Hashes(ops) == [i \in 1..Len(ops) |-> ops[i].hash]

\* Scenario S2: the window is [B1, B2, B3] of the main chain, as the initial
\* load of B3 leaves it, and the head presented is B4' of the chain B2', B3',
\* B4' that forks above B1.
S2_Presented ==
    /\ lastResult # "none"
    /\ lastRpcOk
    /\ Len(prevBlocks) = 3
    /\ \A i \in 1..3 : prevBlocks[i].hash = HashOf(i, 0)
    /\ lastHead = HashOf(4, 2)

\* C14 as stated: in S2 sync_to_block(B4') returns reorg_depth = 1,
\* mined = [112, 113, 114] and unmined = the ops of the previous B2.
C14_Original ==
    S2_Presented =>
        /\ lastResult = "ok"
        /\ lastUpdate.reorg_depth = 1
        /\ Hashes(lastUpdate.mined_ops) = << 112, 113, 114 >>
        /\ lastUpdate.unmined_ops = prevBlocks[2].ops

\* C14 amended: in S2 sync_to_block(B4') returns reorg_depth = 2 (B2 and B3
\* are both replaced), mined = [112, 113, 114] and unmined = the ops of the
\* previous B2 and B3, that is [104, 105]; the window becomes [B2', B3', B4'].
C14_ForwardReorgScenario ==
    S2_Presented =>
        /\ lastResult = "ok"
        /\ lastUpdate.reorg_depth = 2
        /\ Hashes(lastUpdate.mined_ops) = << 112, 113, 114 >>
        /\ lastUpdate.unmined_ops = prevBlocks[2].ops \o prevBlocks[3].ops
        /\ Hashes(lastUpdate.unmined_ops) = << 104, 105 >>
        /\ lastUpdate.reorg_larger_than_history = FALSE
        /\ lastUpdate.earliest_remembered_block_number = 2
        /\ IsChainSegment(blocks, lastHead, 2, 4)

\* C14 witness: S2 was played and the call returned an update.
C14_Witness ==
    /\ S2_Presented
    /\ lastResult = "ok"
    /\ lastUpdate.latest_block_number = 4
    /\ Hashes(prevBlocks[1].ops) = << 103 >>
    /\ prevBlocks[2].ops = << >>
    /\ Hashes(prevBlocks[3].ops) = << 104, 105 >>

\* The backward walk of the last call stopped without connecting to the
\* window and without reaching genesis: no window block exists at the number
\* of the parent of the oldest block loaded.
WalkStoppedUnconnected ==
    /\ lastPath = "incremental"
    /\ lastResult \in {"ok", "panic"}
    /\ ConnectionIndex(prevBlocks, lastHead) = 0
    /\ FirstAddedNumber(prevBlocks, lastHead) > 0

\* the flag is true exactly when the walk stopped without connecting
C15_FlagIffUnconnected ==
    lastResult = "ok" => (lastUpdate.reorg_larger_than_history <=> WalkStoppedUnconnected)

\* an unconnected walk still returns Ok, with every previous block unmined
\* and a window of newly loaded blocks only
C15_UnconnectedUnminesAll ==
    WalkStoppedUnconnected =>
        /\ lastResult = "ok"
        /\ lastUpdate.reorg_depth = Len(prevBlocks)
        /\ lastUpdate.unmined_ops = all_ops(prevBlocks)
        /\ LET lo == FirstAddedNumber(prevBlocks, lastHead)
               hi == NumberOf(lastHead)
           IN  IsChainSegment(blocks, lastHead,
                              IF lo > WindowLowerBound(hi) THEN lo ELSE WindowLowerBound(hi),
                              hi)

\* when the walk connects to a window block the flag is false
C15_ConnectedFlagFalse ==
    IncrementalConnected => lastUpdate.reorg_larger_than_history = FALSE

\* C15 as stated: reorg_larger_than_history is true exactly when the backward
\* walk stopped without connecting to the known chain (no window block at the
\* parent's number, genesis not reached); then sync returns Ok, reorg_depth is
\* the previous window length, every previous block is reported unmined and
\* the window holds only newly loaded blocks; when the walk connects the flag
\* is false.
C15_ReorgLargerThanHistory ==
    /\ C15_FlagIffUnconnected
    /\ C15_UnconnectedUnminesAll
    /\ C15_ConnectedFlagFalse

\* the head given to the last call was more than history_size blocks above
\* the head of a non-empty window
SkippedAhead ==
    /\ lastResult # "none"
    /\ lastRpcOk
    /\ prevBlocks # << >>
    /\ NumberOf(lastHead) - prevBlocks[Len(prevBlocks)].number > HISTORY_SIZE

\* C16: when the window is non-empty and the new head is more than
\* history_size blocks above the current head, sync_to_block discards the old
\* window and re-initializes it to the last history_size blocks ending at the
\* new head; the update has reorg_depth 0, no unmined ops, the flag false and
\* mined_ops = the ops of the new window only.
C16_SkipAheadResets ==
    SkippedAhead =>
        LET hi == NumberOf(lastHead)
            lo == hi - HISTORY_SIZE + 1
        IN  /\ lastResult = "ok"
            /\ lastPath = "reset"
            /\ IsChainSegment(blocks, lastHead, lo, hi)
            /\ lastUpdate.latest_block_hash = lastHead
            /\ lastUpdate.earliest_remembered_block_number = lo
            /\ lastUpdate.reorg_depth = 0
            /\ lastUpdate.unmined_ops = << >>
            /\ lastUpdate.unmined_entity_deposits = << >>
            /\ lastUpdate.reorg_larger_than_history = FALSE
            /\ lastUpdate.mined_ops = ChainOps(lastHead, lo, hi)

\* C16 witness: from a window ending at block 1 the head jumped to block 5 of
\* another branch, skipping a block with ops that is in neither window.
C16_Witness ==
    /\ SkippedAhead
    /\ lastResult = "ok"
    /\ Len(prevBlocks) = 2
    /\ prevBlocks[2].ops # << >>
    /\ NumberOf(lastHead) = 5
    /\ BranchOf(lastHead) = 2
    /\ load_mined_ops(AncestorAt(lastHead, 2)) # << >>
    /\ Len(blocks) = HISTORY_SIZE


\* the step is a turn of the watcher in which sync_to_block returned Err
SyncErrorStep ==
    /\ wpc = "running"
    /\ wpc' # "cancelled"
    /\ lastResult' = "err"

\* C25, the part about Err: when sync_to_block fails for a head, no update
\* is broadcast for it, the window is left as it was, the watcher keeps
\* running and it waits for a head other than the one that failed.
C25_SyncErrorIsSurvived ==
    [][SyncErrorStep =>
          /\ broadcast' = None
          /\ blocks' = blocks
          /\ wpc' = "running"
          /\ block_hash' = lastHead']_vars

\* an update is broadcast exactly for the heads whose sync returned Ok
C25_BroadcastIffOk ==
    wpc # "off" => (broadcast # None <=> (lastResult = "ok" /\ wpc = "running"))

\* C25: the chain watcher never terminates because of a sync_to_block call:
\* it stops only when the cancel signal is raised.
C25_StopsOnlyOnCancel ==
    wpc \in {"running", "cancelled"}

\* the watcher task ended by a panic of sync_to_block, with no cancel signal
C25_PanickedWatcher ==
    /\ wpc = "panicked"
    /\ lastResult = "panic"
    /\ overflowChecks


\* the last sync_to_block call took the reset path, or would have: the
\* window was empty or the head is more than history_size ahead of it
OnResetPath ==
    \/ prevBlocks = << >>
    \/ prevBlocks[Len(prevBlocks)].number + HISTORY_SIZE < NumberOf(lastHead)

C32_WitnessReset ==
    /\ lastResult = "err"
    /\ ~lastRpcOk
    /\ OnResetPath
    /\ prevBlocks # << >>
    /\ blocks = prevBlocks


\* the number of the window's head before the last call
PrevHeadNumber == prevBlocks[Len(prevBlocks)].number

\* C33: when the window is non-empty and new_head.number <=
\* current_head.number - history_size, sync_to_block fails with an error and
\* leaves the window unchanged; for any new_head.number above that bound it
\* does not fail for this reason (it fails only when a load fails).
C33_OlderThanWindowFails ==
    lastResult # "none" /\ prevBlocks # << >> =>
        /\ NumberOf(lastHead) <= PrevHeadNumber - HISTORY_SIZE =>
              lastResult = "err" /\ blocks = prevBlocks
        /\ NumberOf(lastHead) > PrevHeadNumber - HISTORY_SIZE /\ lastRpcOk =>
              lastResult # "err"

\* C33 witness: the head presented is exactly history_size below the window's
\* head, every load would succeed, and the call failed.
C33_Witness ==
    /\ prevBlocks # << >>
    /\ lastRpcOk
    /\ NumberOf(lastHead) = PrevHeadNumber - HISTORY_SIZE
    /\ lastResult = "err"
    /\ blocks = prevBlocks

\* C33 witness just above the bound: the head is history_size - 1 below the
\* window's head and the call returned an update.
C33_WitnessAboveBound ==
    /\ prevBlocks # << >>
    /\ NumberOf(lastHead) = PrevHeadNumber - HISTORY_SIZE + 1
    /\ lastResult = "ok"


\* C34: the watcher produces no update for an unchanged head: every broadcast
\* ChainUpdate has a latest_block_hash different from the latest_block_hash
\* of the update broadcast immediately before it, for any sequence of head
\* changes and sync failures.
C34_NoUpdateForUnchangedHead ==
    lastSent # None /\ sentBefore # None => lastSent[1] # sentBefore[1]

\* what holds: an update is never broadcast for the head hash the watcher saw
\* last, and two updates sent with no failed sync between them differ in
\* their latest_block_hash
C34_NoUpdateForLastSeenHash ==
    [][broadcast' # None =>
          /\ broadcast'[1].latest_block_hash # block_hash
          /\ (broadcast # None =>
                 broadcast'[1].latest_block_hash # broadcast[1].latest_block_hash)]_vars

\* two updates in a row were broadcast for the same head: the sync of another
\* head failed in between and the node then reported the window's head again
C34_SameHeadBroadcastTwice ==
    /\ wpc = "running"
    /\ lastSent # None /\ sentBefore # None
    /\ lastSent[1] = sentBefore[1]
    /\ broadcast # None
    /\ broadcast[1].reorg_depth = 1


\* the depth the last incremental call computed from the block numbers:
\* current_head.number + 1 - added[0].number
ComputedReorgDepth ==
    PrevHeadNumber + 1 - FirstAddedNumber(prevBlocks, lastHead)

\* C38: on every incremental sync_to_block reachable by any sequence of head
\* advances and reorgs, backward reorgs that left the window shorter than
\* history_size included, the computed reorg_depth = current_head.number + 1
\* - added[0].number is at most the number of blocks in the window before the
\* update, so the start index len - reorg_depth never underflows (the call
\* returns its update) and exactly reorg_depth blocks are popped.
C38_ReorgDepthWithinWindow ==
    lastPath = "incremental" =>
        /\ ComputedReorgDepth <= Len(prevBlocks)
        /\ lastResult = "ok"
        /\ lastUpdate.reorg_depth = ComputedReorgDepth
        /\ lastUpdate.unmined_ops =
              all_ops(Skip(prevBlocks, Len(prevBlocks) - ComputedReorgDepth))

\* What holds of the code: the depth stays within the window whenever the
\* window before the call was full or reached down to genesis.
C38_WithinFullWindow ==
    /\ lastPath = "incremental"
    /\ \/ Len(prevBlocks) = HISTORY_SIZE
       \/ prevBlocks[1].number = 0
    => /\ ComputedReorgDepth <= Len(prevBlocks)
       /\ lastResult = "ok"
       /\ lastUpdate.reorg_depth = ComputedReorgDepth

\* The failing case: after a backward reorg left one block in the window, a
\* head below it yields a depth of two; the call panics or wraps the index.
C38_DepthExceedsWindow ==
    /\ lastPath = "incremental"
    /\ Len(prevBlocks) = 1
    /\ ComputedReorgDepth = 2
    /\ lastResult \in {"ok", "panic"}

(***************************************************************************)
(* Properties of the transaction tracker.                                  *)
(***************************************************************************)
TrackerOps == {"send", "poll", "check"}

\* C3 as stated: after any operation yields a Mined outcome,
\* get_nonce_and_required_fees returns the nonce of before the outcome plus
\* one and None as the required fees.
C3_Original ==
    (tOp \in TrackerOps /\ tOut.kind = "Mined") =>
        /\ get_nonce_and_required_fees(inner)[1] = tPre.nonce + 1
        /\ get_nonce_and_required_fees(inner)[2] = None

\* C3, amended: after any operation yields a Mined outcome,
\* get_nonce_and_required_fees returns None as the required fees and, as the
\* nonce, the external nonce the operation read when that was above the
\* tracker's nonce, and the tracker's previous nonce plus one otherwise.
C3_MinedCommitsExternalNonce ==
    (tOp \in TrackerOps /\ tOut.kind = "Mined") =>
        /\ tExternalNonce # None
        /\ get_nonce_and_required_fees(inner)[1] =
               (IF tPre.nonce < tExternalNonce[1] THEN tExternalNonce[1] ELSE tPre.nonce + 1)
        /\ get_nonce_and_required_fees(inner)[2] = None

\* a wait ends Mined for a tracker that had a transaction in flight
C3_Witness ==
    /\ tOp = "poll"
    /\ tOut.kind = "Mined"
    /\ tPre.transactions # << >>
    /\ inner.nonce = tPre.nonce + 1

\* whether the fees of tx are below the floor the tracker self requires
BelowRequiredFees(self, tx) ==
    LET required_gas_fees == get_nonce_and_required_fees(self)[2]
    IN  /\ required_gas_fees # None
        /\ \/ tx.gas_fees.max_fee_per_gas < required_gas_fees[1].max_fee_per_gas
           \/ tx.gas_fees.max_priority_fee_per_gas
                  < required_gas_fees[1].max_priority_fee_per_gas

\* C4: send_transaction_and_wait given a transaction whose nonce differs from
\* the tracker's nonce, or whose max_fee_per_gas or max_priority_fee_per_gas
\* is below the required floor, returns an error without calling
\* sender.send_transaction and leaves nonce, transactions, has_dropped and
\* attempt_count as they were.
C4_InvalidSubmissionLeavesTracker ==
    (/\ tOp = "send"
     /\ tTx[1].nonce # None
     /\ tTx[1].nonce[1] # tPre.nonce \/ BelowRequiredFees(tPre, tTx[1])) =>
        /\ tOut.kind = "InvalidSubmission"
        /\ ~tSenderCalled
        /\ inner = tPre

\* a replacement with the right nonce and too low a fee was refused
C4_Witness ==
    /\ tOp = "send"
    /\ tTx[1].nonce = Some(tPre.nonce)
    /\ BelowRequiredFees(tPre, tTx[1])
    /\ tOut.kind = "InvalidSubmission"

\* a call is in flight: it holds the guard while it sleeps between polls
CallInFlight == tpc = "polling"

Bumped(fee) == (fee * (100 + replacement_fee_percent_increase)) \div 100
BumpedFees(gas_fees) ==
    [max_fee_per_gas |-> Bumped(gas_fees.max_fee_per_gas),
     max_priority_fee_per_gas |-> Bumped(gas_fees.max_priority_fee_per_gas)]

\* the last step was a send_transaction_and_wait whose transaction was sent
\* and recorded
JustSent ==
    /\ tOp = "send"
    /\ tSenderCalled
    /\ Len(inner.transactions) = Len(tPre.transactions) + 1

\* C18: get_nonce_and_required_fees returns the tracker's nonce together with
\* None if no transaction has been sent for this nonce or the latest attempt
\* was reported dropped, and otherwise the gas fees of the latest attempt (not
\* of an earlier one) increased by replacement_fee_percent_increase.
C18_RequiredFees ==
    LET r == get_nonce_and_required_fees(inner)
        txs == inner.transactions
    IN  /\ r[1] = inner.nonce
        /\ IF txs = << >> \/ inner.has_dropped THEN r[2] = None
           ELSE r[2] = Some(BumpedFees(txs[Len(txs)].gas_fees))
        /\ tOut.kind = "LatestTxDropped" => r[2] = None
        /\ tOut.kind \in {"Mined", "NonceUsedForOtherTx"} => r[2] = None
        /\ JustSent => r[2] = Some(BumpedFees(tTx[1].gas_fees))

\* C18 witness: a second attempt with higher fees than the first was just
\* sent, so the floor of the latest attempt differs from that of the first.
C18_Witness ==
    /\ JustSent
    /\ Len(inner.transactions) = 2
    /\ inner.transactions[1].gas_fees # inner.transactions[2].gas_fees
    /\ get_nonce_and_required_fees(inner)[2] = Some(BumpedFees(inner.transactions[2].gas_fees))
    /\ get_nonce_and_required_fees(inner)[2] # Some(BumpedFees(inner.transactions[1].gas_fees))

\* C18 second case: the latest attempt was reported dropped and the floor is
\* lifted although a transaction is recorded.
C18_WitnessDropped ==
    /\ tOut.kind = "LatestTxDropped"
    /\ inner.transactions # << >>
    /\ get_nonce_and_required_fees(inner)[2] = None

\* the last step was a send_transaction_and_wait whose sender.send_transaction
\* failed
SendFailed ==
    /\ tOp = "send"
    /\ tSenderCalled
    /\ ~JustSent

\* what the one check_for_update_now of handle_send_error gives on the state
\* before the call, for the nonce it read
RecoveryCheck == check_for_update_now(tPre, tExternalNonce[1], StatusOf, "none")

\* C19 as stated: when sender.send_transaction fails the tracker runs one
\* check_for_update_now and appends no PendingTransaction; the call returns
\* the check's update when it is Mined or NonceUsedForOtherTx, and the
\* original send error in every other case.
C19_SendErrorRecovery ==
    SendFailed =>
        /\ Len(inner.transactions) <= Len(tPre.transactions)
        /\ inner.attempt_count <= tPre.attempt_count
        /\ tOut.kind \in {"Mined", "NonceUsedForOtherTx", "SendError"}
        /\ tExternalNonce # None =>
              /\ inner = RecoveryCheck.inner
              /\ IF RecoveryCheck.out.kind \in {"Mined", "NonceUsedForOtherTx"}
                 THEN tOut = RecoveryCheck.out
                 ELSE tOut = Update("SendError")

\* What holds of the code: the same, except that a check that fails returns
\* its own error in place of the send error, the tracker left as it was.
C19_ExceptWhenCheckFails ==
    SendFailed =>
        /\ Len(inner.transactions) <= Len(tPre.transactions)
        /\ inner.attempt_count <= tPre.attempt_count
        /\ tOut.kind \in {"Mined", "NonceUsedForOtherTx", "SendError", "ProviderError"}
        /\ tOut.kind = "ProviderError" => inner = tPre
        /\ (tExternalNonce # None /\ tOut.kind # "ProviderError") =>
              /\ inner = RecoveryCheck.inner
              /\ IF RecoveryCheck.out.kind \in {"Mined", "NonceUsedForOtherTx"}
                 THEN tOut = RecoveryCheck.out
                 ELSE tOut = Update("SendError")

\* the send failed and the check after it failed too
C19_CheckFailedAfterSendFailed ==
    /\ SendFailed
    /\ tOut.kind = "ProviderError"
    /\ tPre.transactions # << >>

\* the state set_nonce_and_clear_state leaves, whatever the nonce
IsCleared(self) ==
    /\ self.transactions = << >>
    /\ self.has_dropped = FALSE
    /\ self.attempt_count = 0

\* every transaction with the tracker's nonce passes validate_transaction,
\* whatever its fees
NoFeeFloor(self) ==
    /\ get_nonce_and_required_fees(self)[2] = None
    /\ \A tx \in TxInputs : tx.nonce = Some(self.nonce) => validate_transaction(self, tx)

\* right after a Mined or NonceUsedForOtherTx outcome the tracker is cleared
C20_ClearedAfterMined ==
    tOut.kind \in {"Mined", "NonceUsedForOtherTx"} => IsCleared(inner) /\ NoFeeFloor(inner)

\* a cleared tracker stays cleared until a transaction is sent, and that
\* transaction is recorded alone, with attempt_number 0 and the fees given
C20_NextSendIsFirstAttempt ==
    IsCleared(inner) =>
        \/ IsCleared(inner')
        \/ /\ JustSent'
           /\ Len(inner'.transactions) = 1
           /\ inner'.transactions[1].attempt_number = 0
           /\ inner'.transactions[1].gas_fees = tTx'[1].gas_fees
           /\ inner'.attempt_count = 1

\* C20: immediately after any Mined or NonceUsedForOtherTx outcome the tracker
\* has an empty transactions list, has_dropped = false and attempt_count = 0,
\* so the next successfully sent transaction is recorded with attempt_number 0
\* and is subject to no fee floor.
C20_PostMinedReset ==
    /\ []C20_ClearedAfterMined
    /\ [][C20_NextSendIsFirstAttempt]_vars

\* C20 witness: the second attempt (attempt_number 1) was reported mined and
\* the tracker, which held two transactions, is cleared.
C20_Witness ==
    /\ tOut.kind = "Mined"
    /\ tOut.attempt_number = 1
    /\ Len(tPre.transactions) = 2
    /\ tPre.attempt_count = 2
    /\ IsCleared(inner)

\* C20 second case: after a mined transaction the next one was sent with
\* lower fees than the mined one asked and is recorded as attempt 0.
C20_WitnessNextSend ==
    /\ JustSent
    /\ inner.nonce > 0
    /\ IsCleared(tPre)
    /\ inner.transactions[1].attempt_number = 0
    /\ inner.transactions[1].gas_fees.max_fee_per_gas = 1
    /\ \E h \in TxHashes : /\ nodeTxs[h].state = "mined"
                           /\ h # inner.transactions[1].tx_hash

\* the deadline of the wait in flight can be reached by the node's blocks
DeadlineReachable == endBlock <= MaxBlockNumber

\* StillPendingAfterWait comes only from a poll that found no update and read
\* a block number at or past the deadline
C21_StillPendingOnlyAtDeadline ==
    tOut.kind = "StillPendingAfterWait" =>
        /\ tOp = "poll"
        /\ inner = tPre
        /\ check_for_update_now(tPre, tExternalNonce[1], StatusOf, "none").out.kind = "None"
        /\ blockNumber >= endBlock
        /\ tpc = "idle"

\* a poll made at or past the deadline is the last poll of the call
C21_NoPollPastDeadline ==
    (tpc = "polling" /\ blockNumber >= endBlock /\ tOp' = "poll") => tpc' = "idle"

\* C21: after a successful submission at starting block B0 the call returns
\* StillPendingAfterWait only when a poll found no update and the block number
\* read in that poll is >= B0 + max_blocks_to_wait_for_mine; when the calls
\* succeed and the block number reaches that deadline the call eventually
\* returns, and it never polls beyond the first poll at or past the deadline.
C21_WaitDeadline ==
    /\ []C21_StillPendingOnlyAtDeadline
    /\ [][C21_NoPollPastDeadline]_vars
    /\ [][(JustSent' /\ tpc' = "polling") =>
              endBlock' = blockNumber + max_blocks_to_wait_for_mine]_vars
    /\ (tpc = "polling" /\ DeadlineReachable) ~> (tpc = "idle")

\* C21 witness: the wait ended with StillPendingAfterWait at the deadline,
\* the transaction still pending at the node.
C21_Witness ==
    /\ tOut.kind = "StillPendingAfterWait"
    /\ tOp = "poll"
    /\ blockNumber = endBlock
    /\ inner.transactions # << >>
    /\ nodeTxs[inner.transactions[Len(inner.transactions)].tx_hash].state = "pending"


\* the last step was a poll or a check that found the nonce unchanged, asked
\* the sender about the latest transaction without failure, and the node has
\* no record of that transaction
PolledForgottenLatest ==
    /\ tOp \in {"poll", "check"}
    /\ tPre.transactions # << >>
    /\ ~tPre.has_dropped
    /\ tExternalNonce = Some(tPre.nonce)
    /\ tOut.kind # "ProviderError"
    /\ nodeTxs[tPre.transactions[Len(tPre.transactions)].tx_hash].state = "unknown"

\* C26: when the node has no record of a submitted transaction hash, the
\* RawTransactionSender's get_transaction_status reports Dropped (not
\* Pending), so that the tracker's poll on the latest transaction sets
\* has_dropped and yields LatestTxDropped.
C26_UnknownTxIsDropped ==
    senderKind = "raw" =>
        /\ \A h \in 1..sentCount :
              nodeTxs[h].state = "unknown" => StatusOf[h].status = "Dropped"
        /\ PolledForgottenLatest =>
              inner.has_dropped /\ tOut = Update("LatestTxDropped")

\* what the raw sender does instead: the forgotten transaction is polled as
\* Pending, the poll yields nothing and has_dropped stays false
C26_ForgottenPolledAsPending ==
    /\ senderKind = "raw"
    /\ PolledForgottenLatest
    /\ ~inner.has_dropped
    /\ tOut.kind \in {"None", "Waiting", "StillPendingAfterWait"}


\* the last step ran check_for_update_now to its end and the external nonce
\* it read was above the tracker's nonce
NonceAdvancedCheck ==
    /\ \/ tOp \in {"poll", "check"}
       \/ SendFailed
    /\ tExternalNonce # None
    /\ tPre.nonce < tExternalNonce[1]
    /\ tOut.kind # "ProviderError"

\* the positions of the tracked transactions the node holds as mined
MinedPositions(txs) == { i \in 1..Len(txs) : nodeTxs[txs[i].tx_hash].state = "mined" }

\* the greatest element of a non-empty set of numbers
Max(S) == CHOOSE x \in S : \A y \in S : y <= x

\* C35: when check_for_update_now reads an external nonce greater than the
\* tracker's nonce, it returns Mined carrying the tx_hash, gas_fees,
\* attempt_number and block number of the newest tracked transaction whose
\* status is Mined, or NonceUsedForOtherTx if none is Mined; in both cases the
\* tracker's nonce becomes the external nonce.
C35_NonceAdvancedClassification ==
    NonceAdvancedCheck =>
        LET txs == tPre.transactions
        IN  /\ inner.nonce = tExternalNonce[1]
            /\ IF MinedPositions(txs) = {}
               THEN tOut = Update("NonceUsedForOtherTx")
               ELSE LET tx == txs[Max(MinedPositions(txs))]
                    IN  tOut = [kind |-> "Mined", tx_hash |-> tx.tx_hash,
                                gas_fees |-> tx.gas_fees,
                                block_number |-> nodeTxs[tx.tx_hash].block_number,
                                attempt_number |-> tx.attempt_number]

\* C35 witness: two transactions were tracked, the node mined the older one,
\* and the check returned Mined for it.
C35_Witness ==
    /\ NonceAdvancedCheck
    /\ Len(tPre.transactions) = 2
    /\ MinedPositions(tPre.transactions) = {1}
    /\ tOut.kind = "Mined"
    /\ tOut.tx_hash = tPre.transactions[1].tx_hash
    /\ tOut.attempt_number = 0

\* C35 witness without a mined transaction: one was tracked, the nonce was
\* used by a transaction of someone else.
C35_WitnessOtherTx ==
    /\ NonceAdvancedCheck
    /\ tPre.transactions # << >>
    /\ MinedPositions(tPre.transactions) = {}
    /\ tOut = Update("NonceUsedForOtherTx")
    /\ inner.nonce = tExternalNonce[1]


\* the last transaction of a tracker state
LastTx(self) == self.transactions[Len(self.transactions)]

\* the last step was a check_for_update_now, direct or inside the recovery of
\* a failed send, on a tracker that had has_dropped set, and it read an
\* external nonce that had not advanced
CheckedWhileDropped ==
    /\ tOp = "check" \/ SendFailed
    /\ tPre.has_dropped
    /\ tExternalNonce # None
    /\ tExternalNonce[1] <= tPre.nonce

\* C36, the state part: has_dropped implies a non-empty list; a check made
\* while has_dropped is set and the nonce unchanged returns None (the send
\* error, in the recovery of a failed send) and changes nothing, even when a
\* status query would have failed, so none was made; a successful send
\* clears has_dropped.
C36_DroppedState ==
    /\ inner.has_dropped => inner.transactions # << >>
    /\ CheckedWhileDropped =>
          /\ inner = tPre
          /\ tOut = (IF tOp = "check" THEN Update("None") ELSE Update("SendError"))
    /\ JustSent => ~inner.has_dropped

\* C36, the step part: has_dropped is set only by a step whose check found
\* LatestTxDropped after the sender reported the last transaction Dropped
\* (the step returns it, or the send error when the check ran inside
\* send-error recovery), and while it stays set the list does not change.
C36_DroppedSteps ==
    /\ ~inner.has_dropped /\ inner'.has_dropped =>
          /\ inner'.transactions = inner.transactions
          /\ inner.transactions # << >>
          /\ StatusOf[LastTx(inner).tx_hash].status = "Dropped"
          /\ tOut' \in {Update("LatestTxDropped"), Update("SendError")}
    /\ inner.has_dropped /\ inner'.has_dropped =>
          inner'.transactions = inner.transactions

\* C36: has_dropped is true only while the transactions list is non-empty and
\* its last entry is the transaction whose Dropped status was observed; after
\* LatestTxDropped, every further check_for_update_now with an unchanged
\* external nonce returns None without querying any transaction status, until
\* a new transaction is successfully sent or the external nonce advances.
C36_DroppedHandling ==
    /\ []C36_DroppedState
    /\ [][C36_DroppedSteps]_vars

\* C36 witness: after LatestTxDropped a direct check with the nonce unchanged
\* returned None and left has_dropped set.
C36_Witness ==
    /\ tOp = "check"
    /\ CheckedWhileDropped
    /\ inner.has_dropped
    /\ tOut = Update("None")
    /\ nodeTxs[LastTx(inner).tx_hash].state = "unknown"

\* C36 witness of the reset: a transaction was sent on a tracker that had
\* has_dropped set, and the flag is cleared.
C36_WitnessResend ==
    /\ JustSent
    /\ tPre.has_dropped
    /\ ~inner.has_dropped
    /\ Len(inner.transactions) = 2


\* C37: after any sequence of tracker operations the pending transactions
\* list is strictly increasing in attempt_number from oldest to newest: the
\* entry at index i, counted from 0, has attempt_number i, and attempt_count
\* equals the length of the list, so a failed send consumes no attempt
\* number.
C37_AttemptNumbersAreIndexes ==
    /\ inner.attempt_count = Len(inner.transactions)
    /\ \A i \in 1..Len(inner.transactions) :
          inner.transactions[i].attempt_number = i - 1
    /\ \A i, j \in 1..Len(inner.transactions) :
          i < j => inner.transactions[i].attempt_number
                       < inner.transactions[j].attempt_number
    /\ SendFailed /\ tOut.kind \in {"SendError", "ProviderError"} =>
          /\ inner.attempt_count = tPre.attempt_count
          /\ inner.transactions = tPre.transactions

\* C37 witness: a send failed on a tracker holding one transaction, and the
\* list and the count are as before.
C37_Witness ==
    /\ SendFailed
    /\ tOut = Update("SendError")
    /\ Len(inner.transactions) = 1
    /\ inner.transactions[1].attempt_number = 0
    /\ inner.attempt_count = 1

\* C37 witness of the second attempt: two transactions are tracked, with
\* attempt numbers 0 and 1.
C37_WitnessTwoAttempts ==
    /\ JustSent
    /\ Len(inner.transactions) = 2
    /\ inner.transactions[2].attempt_number = 1
    /\ inner.attempt_count = 2


\* a step of the tracker that sets has_dropped
SetsHasDropped == ~inner.has_dropped /\ inner'.has_dropped

\* C39: no dropped notification is lost: whenever a tracker operation sets
\* has_dropped to true, that same operation returns LatestTxDropped to its
\* caller, in particular when the Dropped status is discovered by the check
\* run inside send-error recovery.
C39_NoDroppedNotificationLost ==
    [][SetsHasDropped => tOut' = Update("LatestTxDropped")]_vars

\* What holds of the code: the only operation that sets has_dropped without
\* returning LatestTxDropped is a failed send, which returns the send error.
C39_LostOnlyInSendRecovery ==
    [][SetsHasDropped =>
          \/ tOut' = Update("LatestTxDropped")
          \/ tOp' = "send" /\ tOut' = Update("SendError")]_vars

\* The failing case: a failed send whose recovery check found the last
\* transaction dropped set has_dropped and returned the send error.
C39_DroppedFoundInSendRecovery ==
    /\ SendFailed
    /\ ~tPre.has_dropped
    /\ inner.has_dropped
    /\ tOut = Update("SendError")


\* the last step ran check_for_update_now: directly, in a poll of the wait,
\* or in the recovery of a failed send
RanCheck == tOp \in {"check", "poll"} \/ SendFailed

\* C40: if check_for_update_now returns an error (the external nonce fetch or
\* a transaction-status query failed, part-way through the newest-first scan
\* included), the tracker's nonce, transactions, has_dropped and attempt_count
\* are exactly as before the call, so a later check re-derives the same
\* outcome.
C40_FailedCheckChangesNothing ==
    RanCheck /\ tOut.kind = "ProviderError" =>
        /\ inner.nonce = tPre.nonce
        /\ inner.transactions = tPre.transactions
        /\ inner.has_dropped = tPre.has_dropped
        /\ inner.attempt_count = tPre.attempt_count
        /\ \A n \in NonceReads :
              check_for_update_now(inner, n, StatusOf, "none")
                  = check_for_update_now(tPre, n, StatusOf, "none")

\* C40 witness: a direct check read a nonce above the tracker's, a status
\* query of the scan over two tracked transactions failed, and the tracker
\* still holds both under its old nonce.
C40_Witness ==
    /\ tOp = "check"
    /\ tOut.kind = "ProviderError"
    /\ tExternalNonce # None
    /\ tPre.nonce < tExternalNonce[1]
    /\ Len(tPre.transactions) = 2
    /\ inner = tPre

\* C40 witness of the failed nonce fetch, with a transaction tracked
C40_WitnessNonceFetch ==
    /\ tOp = "check"
    /\ tOut.kind = "ProviderError"
    /\ tExternalNonce = None
    /\ tPre.transactions # << >>
    /\ inner = tPre

\* C40 witness of the failed status query of the last transaction, the nonce
\* unchanged
C40_WitnessDroppedQuery ==
    /\ tOp = "check"
    /\ tOut.kind = "ProviderError"
    /\ tExternalNonce = Some(tPre.nonce)
    /\ tPre.transactions # << >>
    /\ ~tPre.has_dropped
    /\ inner = tPre

(***************************************************************************)
(* Properties of the bundle proposer.                                      *)
(***************************************************************************)
RECURSIVE Flatten(_)
Flatten(ops_per_aggregator) ==
    IF ops_per_aggregator = << >> THEN << >>
    ELSE Head(ops_per_aggregator).user_ops \o Flatten(Tail(ops_per_aggregator))

\* the ops of the bundle make_bundle returned
BundleOps == Flatten(bundleResult.bundle[1].ops_per_aggregator)
BundleReturned == bundleResult.status = "Ok"

RECURSIVE PaymasterDebt(_, _)
\* the sum of max_gas_cost over the ops of a list that use paymaster
PaymasterDebt(ops, paymaster) ==
    IF ops = << >> THEN 0
    ELSE (IF Head(ops).paymaster = Some(paymaster) THEN Head(ops).max_gas_cost ELSE 0)
         + PaymasterDebt(Tail(ops), paymaster)

\* C5: in every bundle returned by make_bundle, for each paymaster the sum of
\* max_gas_cost over the bundle's ops that use it is at most the paymaster's
\* deposit fetched at the selection block hash.
C5_PaymasterDebtWithinDeposit ==
    BundleReturned =>
        \A paymaster \in Paymasters :
            PaymasterDebt(BundleOps, paymaster) > 0 =>
                /\ paymaster \in DOMAIN deposits
                /\ PaymasterDebt(BundleOps, paymaster) <= deposits[paymaster]

\* a bundle with two ops of one paymaster that use its deposit up
C5_Witness ==
    /\ BundleReturned
    /\ \E paymaster \in Paymasters :
          /\ Cardinality({ i \in 1..Len(BundleOps) :
                             BundleOps[i].paymaster = Some(paymaster) }) = 2
          /\ PaymasterDebt(BundleOps, paymaster) = deposits[paymaster]

\* the addresses the simulation of a bundle op accessed
AccessedBy(op) == poolOps[op.id].simulation_result.accessed_addresses

\* C6 as stated: in every bundle returned by make_bundle there are no two ops
\* such that the accessed_addresses of one contains the sender of the other.
C6_Original ==
    BundleReturned =>
        \A i, j \in 1..Len(BundleOps) :
            i # j => BundleOps[j].sender \notin AccessedBy(BundleOps[i])

\* C6, amended: in every bundle returned by make_bundle there are no two ops
\* of different senders such that the accessed_addresses of one contains the
\* sender of the other.
C6_NoAccessToAnotherSender ==
    BundleReturned =>
        \A i, j \in 1..Len(BundleOps) :
            BundleOps[i].sender # BundleOps[j].sender =>
                BundleOps[j].sender \notin AccessedBy(BundleOps[i])

\* a bundle was returned without a simulated, fee-eligible op that accessed
\* the sender of the op that is in it, and that op was not rejected
C6_Witness ==
    /\ BundleReturned
    /\ Len(BundleOps) = 1
    /\ \E i \in 1..Len(poolOps) :
          /\ fee_eligible(poolOps[i].op, priorityFee)
          /\ UsableSimulation(poolOps[i].simulation_result)
          /\ poolOps[i].op.sender # BundleOps[1].sender
          /\ BundleOps[1].sender \in poolOps[i].simulation_result.accessed_addresses
          /\ \A k \in 1..Len(bundleResult.bundle[1].rejected_ops) :
                bundleResult.bundle[1].rejected_ops[k].id # i

\* the failures of make_bundle that are failures of the pool, the provider
\* or the entry point
InfrastructureFailures == {"pool", "max_priority_fee", "block_hash", "deposits", "estimate"}

\* C8: make_bundle never fails because of a per-op problem: when the pool
\* fetch, the priority-fee quote, the block-hash fetch, the deposit fetches
\* and the estimate_handle_ops_gas calls return Ok, whatever the simulations,
\* the aggregators and the HandleOpsOut values carry, make_bundle returns Ok.
C8_NoErrorForPerOpProblem ==
    bundleResult.status \in {"Err", "Panic"} => bundleResult.reason \in InfrastructureFailures

\* the bundle make_bundle returned
TheBundle == bundleResult.bundle[1]

\* an op of a list of UserOpsPerAggregator uses the entity, or one of its
\* groups is the aggregator's
EntityInBundle(ops_per_aggregator, entity) ==
    \/ /\ entity.kind \in {"Paymaster", "Factory"}
       /\ \E i \in 1..Len(Flatten(ops_per_aggregator)) :
             op_uses(Flatten(ops_per_aggregator)[i], entity.kind, entity.address)
    \/ /\ entity.kind = "Aggregator"
       /\ \E g \in 1..Len(ops_per_aggregator) :
             ops_per_aggregator[g].aggregator = entity.address

\* C22: after make_bundle returns, no op in ops_per_aggregator uses a factory
\* or paymaster listed in rejected_entities and no group belongs to an
\* aggregator listed there: rejecting an entity removes every op of it, not
\* only the op that triggered the rejection.  The same holds of the context
\* at every iteration of the loop.
C22_RejectedEntitiesAbsent ==
    /\ BundleReturned =>
          \A entity \in Range(TheBundle.rejected_entities) :
              ~EntityInBundle(TheBundle.ops_per_aggregator, entity)
    /\ \A entity \in Range(context.rejected_entities) :
          ~EntityInBundle(to_ops_per_aggregator(context), entity)

\* C22 witness: two ops of the pool deploy through one factory, the entry
\* point reported the first one with a factory error, and the bundle
\* returned holds neither.
C22_Witness ==
    /\ BundleReturned
    /\ estimates >= 1
    /\ \E f \in Factories :
          /\ Entity("Factory", f) \in Range(TheBundle.rejected_entities)
          /\ Cardinality({ i \in 1..Len(poolOps) :
                             /\ poolOps[i].op.factory = Some(f)
                             /\ fee_eligible(poolOps[i].op, priorityFee)
                             /\ UsableSimulation(poolOps[i].simulation_result) }) = 2
    /\ TheBundle.rejected_ops = << >>
    /\ BundleOps = << >>

\* the ids of the ops of a list
IdsOf(ops) == { ops[i].id : i \in 1..Len(ops) }

\* make_bundle has assembled its context and made no estimation yet
AfterAssembly ==
    /\ ppc # "idle"
    /\ bundleResult.status # "Err"
    /\ estimates = 0

\* the pool ops that pass the fee filter
Candidates == { i \in 1..Len(poolOps) : fee_eligible(poolOps[i].op, priorityFee) }

\* the simulation of pool op i returned a violation, or succeeded with
\* signature_failed, or succeeded outside the valid time range
RevalidationRejects(i) ==
    LET result == poolOps[i].simulation_result
    IN  \/ result.kind = "Violations"
        \/ result.kind = "Success" /\ result.signature_failed
        \/ result.kind = "Success" /\ ~result.in_valid_time_range

\* C23: a fee-eligible op is in rejected_ops after assembly iff its simulation
\* returned a violation, or succeeded with signature_failed, or succeeded
\* with a valid_time_range that does not contain now + 60s; an op whose
\* simulation failed with a non-violation error is neither in the bundle nor
\* in rejected_ops; in all four cases the op is absent from
\* ops_per_aggregator.
C23_RevalidationOutcomes ==
    /\ AfterAssembly =>
          \A i \in Candidates :
              i \in IdsOf(context.rejected_ops) <=> RevalidationRejects(i)
    /\ ppc # "idle" /\ bundleResult.status # "Err" =>
          \A i \in Candidates :
              /\ RevalidationRejects(i) =>
                    /\ i \in IdsOf(context.rejected_ops)
                    /\ i \notin IdsOf(Flatten(to_ops_per_aggregator(context)))
              /\ poolOps[i].simulation_result.kind = "Other" =>
                    /\ i \notin IdsOf(context.rejected_ops)
                    /\ i \notin IdsOf(Flatten(to_ops_per_aggregator(context)))
    /\ BundleReturned =>
          \A i \in Candidates :
              /\ RevalidationRejects(i) =>
                    i \in IdsOf(TheBundle.rejected_ops) /\ i \notin IdsOf(BundleOps)
              /\ poolOps[i].simulation_result.kind = "Other" =>
                    i \notin IdsOf(TheBundle.rejected_ops) /\ i \notin IdsOf(BundleOps)

\* C23 witness: of two candidates one failed with a simulator error and the
\* other with a signature failure; the context holds neither and rejects
\* only the second.
C23_Witness ==
    /\ AfterAssembly
    /\ BundleReturned
    /\ priorityFee > 0
    /\ Candidates = {1, 2}
    /\ poolOps[1].simulation_result.kind = "Other"
    /\ poolOps[2].simulation_result.signature_failed
    /\ IdsOf(TheBundle.rejected_ops) = {2}
    /\ BundleOps = << >>


\* the threshold of the fee filter: floor(quoted * (100 + percent) / 100)
FeeThreshold == (priorityFee * (100 + max_priority_fee_overhead_percent)) \div 100

\* pool op i bids at least the threshold
MeetsThreshold(i) == poolOps[i].op.max_priority_fee_per_gas >= FeeThreshold

\* pool op i has nothing but its fee that could keep it out of the context:
\* a usable simulation, no paymaster, no aggregator, no access to another
\* sender
PlainOp(i) ==
    /\ UsableSimulation(poolOps[i].simulation_result)
    /\ poolOps[i].op.paymaster = None
    /\ poolOps[i].simulation_result.aggregator = None
    /\ poolOps[i].simulation_result.accessed_addresses = {}

\* the fee filter as observed on the context and on the bundle: only ops
\* at the threshold are considered, every plain op at the threshold is in
\* the assembled context, and an op below it is in neither list
FeeFilterObserved ==
    /\ ppc # "idle" /\ bundleResult.status # "Err" =>
          \A i \in 1..Len(poolOps) :
              ~MeetsThreshold(i) =>
                  /\ i \notin IdsOf(Flatten(to_ops_per_aggregator(context)))
                  /\ i \notin IdsOf(context.rejected_ops)
    /\ AfterAssembly =>
          \A i \in 1..Len(poolOps) :
              /\ MeetsThreshold(i) /\ PlainOp(i) =>
                    i \in IdsOf(Flatten(to_ops_per_aggregator(context)))
              /\ MeetsThreshold(i) /\ RevalidationRejects(i) =>
                    i \in IdsOf(context.rejected_ops)
    /\ BundleReturned =>
          \A i \in 1..Len(poolOps) :
              ~MeetsThreshold(i) =>
                  i \notin IdsOf(BundleOps) /\ i \notin IdsOf(TheBundle.rejected_ops)

\* C24 as stated: the fee filter, and every returned bundle carries the
\* quote as its max_priority_fee_per_gas.
C24_Original ==
    /\ FeeFilterObserved
    /\ BundleReturned => TheBundle.max_priority_fee_per_gas = priorityFee

\* C24: a pool op is considered for the bundle iff its
\* max_priority_fee_per_gas >= floor(quoted * (100 + percent) / 100); an op
\* below the threshold is neither in ops_per_aggregator nor in rejected_ops;
\* a returned bundle that holds ops carries the quote as its
\* max_priority_fee_per_gas, and the empty bundle carries 0.
C24_FeeFilter ==
    /\ FeeFilterObserved
    /\ BundleReturned /\ BundleOps # << >> =>
          TheBundle.max_priority_fee_per_gas = priorityFee
    /\ BundleReturned /\ BundleOps = << >> =>
          TheBundle.max_priority_fee_per_gas = 0

\* C24 witness: under a nonzero quote the first pool op bids below the
\* threshold and the second at it; the bundle returned after a successful
\* estimation holds the second only, rejects nothing and carries the quote.
C24_Witness ==
    /\ BundleReturned
    /\ priorityFee > 0
    /\ Len(poolOps) = 2
    /\ ~MeetsThreshold(1) /\ poolOps[1].op.max_priority_fee_per_gas >= priorityFee
    /\ MeetsThreshold(2)
    /\ IdsOf(BundleOps) = {2}
    /\ TheBundle.rejected_ops = << >>
    /\ TheBundle.max_priority_fee_per_gas = priorityFee

\* C24 witness of the empty bundle: under a nonzero quote no op was left and
\* the bundle returned carries the fee 0.
C24_WitnessEmpty ==
    /\ BundleReturned
    /\ priorityFee > 0
    /\ BundleOps = << >>
    /\ TheBundle.max_priority_fee_per_gas = 0


\* the number of ops of a context
OpCount(c) == Len(Flatten(to_ops_per_aggregator(c)))

\* the step is an iteration of make_bundle's loop whose estimation did not
\* return SuccessWithGas and did not make make_bundle fail: the loop goes on
\* or ends on the empty context
FailedEstimationStep ==
    /\ estimates' = estimates + 1
    /\ \/ ppc' = "estimating"
       \/ /\ bundleResult'.status = "Ok"
          /\ bundleResult'.bundle[1].ops_per_aggregator = << >>

\* the step removed at least one op or group from the context
ContextShrinks ==
    \/ OpCount(context') < OpCount(context)
    \/ Len(context'.groups_by_aggregator) < Len(context.groups_by_aggregator)

\* C27: every gas-estimation iteration that does not return SuccessWithGas,
\* whatever FailedOp(index, message) or SignatureValidationFailed(aggregator)
\* value it got, removes at least one op or group from the proposal context,
\* which bounds the failed estimations of make_bundle by the number of ops of
\* the assembled context.
C27_FailedEstimationRemoves ==
    [][FailedEstimationStep => ContextShrinks]_vars

\* what holds instead: a failed estimation removes something or leaves the
\* groups and rejected_ops exactly as they were
C27_ShrinksOrStalls ==
    [][FailedEstimationStep =>
          \/ ContextShrinks
          \/ /\ context'.groups_by_aggregator = context.groups_by_aggregator
             /\ context'.rejected_ops = context.rejected_ops]_vars

\* the loop made MaxEstimates failed estimations on a context of one op and
\* still holds that op: no estimation removed anything
C27_StalledLoop ==
    /\ ppc = "estimating"
    /\ estimates = MaxEstimates
    /\ OpCount(context) = 1
    /\ context.rejected_ops = << >>
    /\ Len(poolOps) = 1


\* the ops of a context, in the order of to_ops_per_aggregator
OpsOf(c) == Flatten(to_ops_per_aggregator(c))

\* process_failed_op on context c did what the classification says for
\* FailedOp(index, message), the op at index being there and, for a factory
\* or paymaster message, having that entity
ClassifiedAsSpecified(c, index, message, agg_results) ==
    LET r == process_failed_op(c, index, message, agg_results)
        op == get_op_at(c, index)[1]
        code == IF Len(message) < 4 THEN message ELSE SubSeq(message, 1, 4)
        rejects(kind, address) ==
            /\ r.status = "ok"
            /\ r.context.rejected_entities =
                   Append(c.rejected_entities, Entity(kind, address))
            /\ \A i \in 1..Len(OpsOf(r.context)) :
                   ~op_uses(OpsOf(r.context)[i], kind, address)
    IN  CASE code \in FactoryErrors ->
               op.factory # None => rejects("Factory", op.factory[1])
          [] code \in PaymasterErrors ->
               op.paymaster # None => rejects("Paymaster", op.paymaster[1])
          [] OTHER ->
               /\ r.status = "ok"
               /\ IdsOf(OpsOf(r.context)) = IdsOf(OpsOf(c)) \ {op.id}
               /\ r.context.rejected_ops = Append(c.rejected_ops, op)
               /\ r.context.rejected_entities = c.rejected_entities

\* C28: on FailedOp(index, message), a message that starts with AA13, AA14 or
\* AA15 adds the factory of the op at index to rejected_entities and removes
\* all ops using it; AA30, AA31, AA33 or AA34 does so with the paymaster; any
\* other message (AA32 included) removes exactly the op at index, appends it
\* to rejected_ops and rejects no entity.
C28_FailedOpClassification ==
    ppc = "estimating" =>
        \A index \in 0..(OpCount(context) - 1), message \in Messages :
            \A agg_results \in AggResults(context.groups_by_aggregator) :
                ClassifiedAsSpecified(context, index, message, agg_results)

\* every aggregator asked for a signature returns one
AllSign == [a \in Aggregators |-> "sig"]

\* what holds: the classification, for a message of at least four characters
\* and when the signature of the group the op leaves is recomputed
\* successfully
C28_ClassifiedWhenWellFormed ==
    ppc = "estimating" =>
        \A index \in 0..(OpCount(context) - 1) :
            \A message \in { m \in Messages : Len(m) >= 4 } :
                ClassifiedAsSpecified(context, index, message, AllSign)

\* a context of two ops in one aggregator's group, where rejecting the op at
\* index 0 for AA32 also loses the other op when the new signature fails
C28_GroupLostWithOp ==
    /\ ppc = "estimating"
    /\ OpCount(context) = 2
    /\ \E a \in Aggregators :
          LET agg_results == [b \in Aggregators |-> "err"]
              r == process_failed_op(context, 0, <<"A","A","3","2">>, agg_results)
          IN  /\ Len(context.groups_by_aggregator) = 1
              /\ context.groups_by_aggregator[1].aggregator = Some(a)
              /\ r.status = "ok"
              /\ OpsOf(r.context) = << >>
              /\ Len(r.context.rejected_ops) = Len(context.rejected_ops) + 1

\* a context on which a FailedOp message shorter than four characters makes
\* process_failed_op panic
C28_ShortMessagePanics ==
    /\ ppc = "estimating"
    /\ process_failed_op(context, 0, <<"A","A">>, AllSign).status = "panic"


\* the aggregators that have a group in the context
GroupAggregators(c) ==
    { a \in Aggregators : group_index(c.groups_by_aggregator, Some(a)) # 0 }

\* the context after the signatures of all its groups were asked for, every
\* aggregator answering with the same kind of result
AfterSignatures(c, kind) ==
    compute_all_aggregator_signatures(c, [a \in Aggregators |-> kind])

\* the part of C29 about Err: the group is removed and neither its ops nor
\* the aggregator are recorded as rejected
C29_ErrorRemovesGroupSilently ==
    \A a \in GroupAggregators(context) :
        LET r == AfterSignatures(context, "err")
        IN  /\ a \notin GroupAggregators(r)
            /\ r.rejected_ops = context.rejected_ops
            /\ r.rejected_entities = context.rejected_entities

\* C29: when aggregate_signatures errors for an aggregator, its whole group
\* is removed and neither its ops nor the aggregator appear in rejected_ops /
\* rejected_entities; when it returns None, the group is removed and the
\* aggregator entity is in rejected_entities.
C29_AggregatorSignatureOutcomes ==
    /\ C29_ErrorRemovesGroupSilently
    /\ \A a \in GroupAggregators(context) :
          LET r == AfterSignatures(context, "none")
          IN  /\ a \notin GroupAggregators(r)
              /\ Entity("Aggregator", a) \in Range(r.rejected_entities)

\* what the code does with None: the same as with Err
C29_NoneTreatedAsError ==
    AfterSignatures(context, "none") = AfterSignatures(context, "err")

\* a context with an aggregator's group on which a None answer adds nothing
\* to rejected_entities
C29_NoneNotRejected ==
    /\ GroupAggregators(context) # {}
    /\ AfterSignatures(context, "none").rejected_entities = context.rejected_entities


\* the position of x in a sequence that holds it once
Pos(s, x) == CHOOSE k \in 1..Len(s) : s[k] = x

\* s holds elements of t only, in the order they have in t
IsSubsequence(s, t) ==
    /\ \A i \in 1..Len(s) : \E k \in 1..Len(t) : t[k] = s[i]
    /\ \A i, j \in 1..Len(s) : i < j => Pos(t, s[i]) < Pos(t, s[j])

\* the aggregator keys of a list of groups, in order
KeysOf(groups) == [g \in 1..Len(groups) |-> groups[g].aggregator]

\* every group of after is a group of before, in the same relative order,
\* and its ops are ops of that group, in the same relative order
OrderKept(before, after) ==
    /\ IsSubsequence(KeysOf(after), KeysOf(before))
    /\ \A g \in 1..Len(after) :
          IsSubsequence(op_ids(after[g]),
                        op_ids(before[group_index(before, after[g].aggregator)]))

\* the groups as the loop of assemble_context leaves them, before any
\* rejection: every op the loop pushed is there
InsertedGroups ==
    LET eligible == SelectSeq(poolOps, LAMBDA m : fee_eligible(m.op, priorityFee))
        simulated == [i \in 1..Len(eligible) |-> simulate_validation(eligible[i])]
        succeeded == SelectSeq(simulated, LAMBDA r : r.ok)
        ops_with_simulations ==
            [i \in 1..Len(succeeded) |->
                [op |-> succeeded[i].op, simulation |-> succeeded[i].simulation]]
    IN  assemble_ops(ops_with_simulations, 1,
                     { succeeded[i].op.sender : i \in 1..Len(succeeded) },
                     [groups_by_aggregator |-> << >>, rejected_ops |-> << >>,
                      paymasters_to_reject |-> << >>,
                      balances_by_paymaster |-> deposits]).groups_by_aggregator

\* the groups are in the order in which their key was first inserted (the
\* position in the pool of the first op pushed under the key) and the ops of
\* a group are in pool order
FirstInsertionOrder(groups) ==
    /\ \A g, h \in 1..Len(groups) :
          g < h => groups[g].ops_with_simulations[1].op.id
                       < groups[h].ops_with_simulations[1].op.id
    /\ \A g \in 1..Len(groups) :
          /\ groups[g].ops_with_simulations # << >>
          /\ \A i, j \in 1..Len(groups[g].ops_with_simulations) :
                i < j => op_ids(groups[g])[i] < op_ids(groups[g])[j]
          /\ \A i \in 1..Len(groups[g].ops_with_simulations) :
                poolOps[op_ids(groups[g])[i]].simulation_result.aggregator
                    = groups[g].aggregator

\* index denotes the index-th op of the concatenation of the groups, and
\* get_op_at and reject_index both select that op
IndexSelects(c, index) ==
    LET op == OpsOf(c)[index + 1]
        r == context_reject_index(c, index).context
    IN  /\ get_op_at(c, index) = Some(op)
        /\ r.rejected_ops = Append(c.rejected_ops, op)
        /\ OpsOf(r) = remove_at(OpsOf(c), index + 1)

\* the list passed to estimate_handle_ops_gas is the groups in their order,
\* each with its ops in their order
ListIsGroupsInOrder(c) ==
    LET list == to_ops_per_aggregator(c)
    IN  /\ Len(list) = Len(c.groups_by_aggregator)
        /\ \A g \in 1..Len(list) :
              [i \in 1..Len(list[g].user_ops) |-> list[g].user_ops[i].id]
                  = op_ids(c.groups_by_aggregator[g])

\* C30, the state part: after assembly the groups are those inserted, in
\* first-insertion order with the ops in pool order; at every estimation the
\* list passed is the groups in order, and every index of it selects the
\* same op in get_op_at and in reject_index
C30_OrderAndIndex ==
    /\ AfterAssembly =>
          /\ FirstInsertionOrder(InsertedGroups)
          /\ OrderKept(InsertedGroups, context.groups_by_aggregator)
    /\ ppc # "idle" =>
          /\ ListIsGroupsInOrder(context)
          /\ \A index \in 0..(OpCount(context) - 1) : IndexSelects(context, index)

C30_WitnessAggregatorFirst ==
    /\ BundleReturned
    /\ Len(BundleOps) = 2
    /\ Len(TheBundle.ops_per_aggregator) = 2
    /\ TheBundle.ops_per_aggregator[1].aggregator # 0
    /\ TheBundle.ops_per_aggregator[2].aggregator = 0
    /\ TheBundle.ops_per_aggregator[1].user_ops[1].id = 1


\* the signature aggregate_signatures returns for aggregator a over the ops
\* of a group of a list of UserOpsPerAggregator
SignatureOver(group) ==
    << group.aggregator, [i \in 1..Len(group.user_ops) |-> group.user_ops[i].id] >>

\* every group of the list with an aggregator carries the signature made
\* over exactly its ops
SignaturesFresh(ops_per_aggregator) ==
    \A g \in 1..Len(ops_per_aggregator) :
        ops_per_aggregator[g].aggregator # 0 =>
            ops_per_aggregator[g].signature = SignatureOver(ops_per_aggregator[g])

\* C31: in every bundle returned by make_bundle, each group with a non-null
\* aggregator carries the signature returned by an aggregate_signatures call
\* made over exactly the ops that are in that group in the returned bundle;
\* the same holds of every list passed to estimate_handle_ops_gas.
C31_SignaturesNeverStale ==
    /\ BundleReturned => SignaturesFresh(TheBundle.ops_per_aggregator)
    /\ ppc = "estimating" => SignaturesFresh(to_ops_per_aggregator(context))

\* C31 witness: two pool ops were in one aggregator's group, one was rejected
\* by a failed estimation, and the bundle returned holds the other under a
\* signature over it alone.
C31_Witness ==
    /\ BundleReturned
    /\ estimates = 2
    /\ Len(poolOps) = 2
    /\ Len(InsertedGroups) = 1
    /\ InsertedGroups[1].aggregator # None
    /\ Len(InsertedGroups[1].ops_with_simulations) = 2
    /\ Len(BundleOps) = 1
    /\ Len(TheBundle.rejected_ops) = 1
    /\ TheBundle.ops_per_aggregator[1].signature
           = << TheBundle.ops_per_aggregator[1].aggregator, << BundleOps[1].id >> >>

====
